---- MODULE Spec2Model ----
(***************************************************************************)
(* Model of the ledger service (src/src/services/finance/index.ts) and of  *)
(* the resource curation pipeline (src/unnamed/part_010, part_011) of      *)
(* fund-plan-thrive.                                                       *)
(*                                                                         *)
(* Every database statement the code awaits is one atomic step; between    *)
(* two statements of one call, any other call may take steps (single       *)
(* process, cooperative scheduling, suspension at every await).            *)
(***************************************************************************)
EXTENDS Integers, Sequences, FiniteSets, TLC

\* ------------------------------------------------------------------ bounds

\* Number of ledger calls (upsert / merge / createGoal) issued in one behaviour,
\* beside the call that may have completed before it starts (SeedTask).
MaxTasks == 2

\* Number of curation jobs (curateResourcesForGoal calls) in one behaviour.
MaxJobs == 2

\* The call that completed before the behaviour starts, when there is one.
SeedTask == 0
NoTask == -1
NoRow == 0

NoJob == 0
NoSearch == -1
NoSeries == <<[date |-> -1, assets |-> 0, debts |-> 0, netWorth |-> 0]>>
Jobs == 1..MaxJobs
Tasks == SeedTask..MaxTasks
Dates == {1, 2}
Kinds == {"asset"}
Users == {"u1"}
Types == {"checking"}

\* Raw account names as the callers pass them: sequences of characters.
RawNames == { <<"A">>, <<" ", "a">>, <<"b">> }

\* What the callers pass as (value, isActive): a reported balance, active, or
\* (0, false) when the account is reported closed.
Balances == { <<10, TRUE>>, <<0, FALSE>> }
MergeValues == {30}

\* The names a merge is called with (old and new).
MergeNames == { <<"A">>, <<"b">> }

\* The new names a merge is called with: these, and the old name "A" written
\* in another case with a leading blank.
MergeNewNames == MergeNames \cup { <<" ", "a">> }

VARIABLES
    accounts,    \* [kind -> sequence of main records]: the assets / debts tables; a row's id is its index
    history,     \* [kind -> sequence of history rows]: assetsHistory / debtsHistory
    _locks,      \* the _locks map: lock key -> the task whose signalDone it holds (a set of <<key, task>>)
    ntasks,      \* number of calls issued so far; a call's task id is its arrival number
    call,        \* [task -> the arguments of the call]
    prev,        \* [task -> the task whose signalDone this call chained on, or NoTask]
    pc,          \* [task -> position of the call]
    existing,    \* [task -> the row its lookup returned: [id, effectiveDate], id = NoRow when none]
    result,      \* [task -> the record / goal id the call returned, NoRow before]
    deduplicated,\* [task -> the deduplicated flag a createGoal call returned]
    goals,       \* sequence of goal rows; a goal's id is its index
    goalSteps,   \* sequence of step rows; a step's id is its index
    goalResources, \* sequence of resource rows
    _curationLock, \* the job whose promise _curationLock holds; NoJob: the initial resolved promise
    njobs,       \* number of curateResourcesForGoal calls so far; a job's id is its arrival number
    jobs,        \* [job -> the state of the call: position, step list, locals, last step result]
    curateArgs,  \* the candidates and the LLM response of a curateResources call
    curateResult,\* what that call returned or threw
    goalRowLock, \* the goal rows an open updateGoal transaction has updated: a set of <<goalId, task>>
    nextOrder,   \* [task -> the nextOrder an updateGoal computed from its count of the steps]
    sinceSearch, \* ms elapsed for certain since the last search request, up to the delay; NoSearch before the first
    tz,          \* the offset of the server's local time from UTC, in ms
    timeSeries   \* what getFinancialHistory returned, NoSeries before

ledgerVars == <<accounts, history>>
goalVars == <<goals, goalSteps, goalResources>>
updateVars == <<goalRowLock, nextOrder>>
historyVars == <<tz, timeSeries>>
taskVars == <<_locks, ntasks, call, prev, pc, existing, result, deduplicated, updateVars>>
curateVars == <<curateArgs, curateResult>>
curationVars == <<_curationLock, njobs, jobs, sinceSearch, curateVars, historyVars>>

vars == <<ledgerVars, taskVars, goalVars, curationVars>>

\* ------------------------------------------------------- string functions

\* String.prototype.toLowerCase on one character of the alphabet used.
LowerChar(c) == CASE c = "A" -> "a" [] c = "B" -> "b" [] OTHER -> c

toLowerCase(s) == [i \in 1..Len(s) |-> LowerChar(s[i])]

RECURSIVE TrimStart(_)
TrimStart(s) == IF s # <<>> /\ Head(s) = " " THEN TrimStart(Tail(s)) ELSE s

RECURSIVE TrimEnd(_)
TrimEnd(s) ==
    IF s # <<>> /\ s[Len(s)] = " " THEN TrimEnd(SubSeq(s, 1, Len(s) - 1)) ELSE s

\* String.prototype.trim
trim(s) == TrimEnd(TrimStart(s))

\* ---------------------------------------------------------- runSerialized

\* lockKey of upsertAsset/upsertDebt/mergeAsset/mergeDebt: `${kind}:${userId}:${name.trim().toLowerCase()}`
LockKeyBug(kind, userId, name) == <<kind, userId, name>>

lockKey(kind, userId, name) == <<kind, userId, toLowerCase(trim(name))>>

\* lockKey of createGoal: `goal:${userId}`
GoalLockKeyBug(userId, title) == <<"goal", userId, title>>

goalLockKey(userId, title) == <<"goal", userId>>

\* A merge that takes the lock of its new name.
KeyOfBug(c) ==
    IF c.op = "createGoal" THEN goalLockKey(c.userId, c.title)
    ELSE IF c.op = "merge" THEN lockKey(c.kind, c.userId, c.newName)
    ELSE lockKey(c.kind, c.userId, c.name)

\* The key a call serializes on: a merge locks on the OLD name.
KeyOf(c) ==
    IF c.op = "createGoal"
    THEN goalLockKey(c.userId, c.title)
    ELSE lockKey(c.kind, c.userId, c.name)

\* _locks.get(key) || Promise.resolve()
LocksGet(key) ==
    IF \E e \in _locks : e[1] = key
    THEN (CHOOSE e \in _locks : e[1] = key)[2]
    ELSE NoTask

\* _locks.set(key, signalDone)
LocksSet(key, t) == {e \in _locks : e[1] # key} \cup {<<key, t>>}

\* A signalDone that settles on success only.
SettledBug(t) == pc[t] = "done"

\* line 32: signalDone = currentTask.then(() => { }, () => { }) settles when the
\* call has, by success or by failure.
Settled(t) == pc[t] \in {"done", "failed"}

\* prev.catch(() => {}).then(fn): fn starts once the promise chained on has settled.
PrevSettledBug(t) == TRUE

PrevSettled(t) == IF prev[t] = NoTask THEN TRUE ELSE Settled(prev[t])

NoCall == [op |-> "none"]

\* runSerialized(key, fn), lines 25-44: synchronous up to its return; chains the
\* call on the key's current promise and stores its own signalDone in the map.
Call(c) ==
    /\ ntasks < MaxTasks
    /\ LET t == ntasks + 1 IN
        /\ ntasks' = t
        /\ call' = [call EXCEPT ![t] = c]
        /\ prev' = [prev EXCEPT ![t] = LocksGet(KeyOf(c))]
        /\ _locks' = LocksSet(KeyOf(c), t)
        /\ pc' = [pc EXCEPT ![t] = "queued"]
    /\ UNCHANGED <<accounts, history, existing, result>>
    /\ UNCHANGED <<deduplicated, updateVars, goalVars, curationVars>>

\* lines 33-41, when the call settles: signalDone settles and its first reaction,
\* registered in the same synchronous run that created it, removes the map entry
\* if it still holds this call's signalDone.
LocksSettled(t) == _locks \ {<<KeyOf(call[t]), t>>}

\* ------------------------------------------------------------ the tables

\* A lookup that compares the stored name with the trimmed name as written.
MatchesBug(row, userId, name, type) ==
    /\ row.userId = userId
    /\ row.name = trim(name)
    /\ row.type = type

\* where userId = ? and lower(name) = lower(trim(?)) and type = ?
Matches(row, userId, name, type) ==
    /\ row.userId = userId
    /\ toLowerCase(row.name) = toLowerCase(trim(name))
    /\ row.type = type

MatchIds(kind, userId, name, type) ==
    {i \in 1..Len(accounts[kind]) : Matches(accounts[kind][i], userId, name, type)}

\* .limit(1) with no ORDER BY: any one of the matching rows, or none.
Selected(kind, userId, name, type) ==
    IF MatchIds(kind, userId, name, type) = {}
    THEN {[id |-> NoRow, effectiveDate |-> 0]}
    ELSE {[id |-> i, effectiveDate |-> accounts[kind][i].effectiveDate] :
            i \in MatchIds(kind, userId, name, type)}

HistoryRow(id, c, source) ==
    [id |-> id, value |-> c.value, effectiveDate |-> c.effectiveDate, source |-> source]

\* ---------------------------------------------------------------- upsert

UpsertArgs ==
    { [op |-> "upsert", kind |-> k, userId |-> u, type |-> ty, name |-> n,
       newName |-> <<>>, value |-> b[1], effectiveDate |-> d,
       source |-> "user_input", isActive |-> b[2]] :
        k \in Kinds, u \in Users, ty \in Types, n \in RawNames, b \in Balances, d \in Dates }

\* upsertAsset / upsertDebt are called.
CallUpsert == \E c \in UpsertArgs : Call(c)

\* lines 55-59: the select of the existing record.
UpsertLookup(t) ==
    /\ pc[t] = "queued"
    /\ call[t].op = "upsert"
    /\ PrevSettled(t)
    /\ LET c == call[t] IN
        \E e \in Selected(c.kind, c.userId, c.name, c.type) :
            existing' = [existing EXCEPT ![t] = e]
    /\ pc' = [pc EXCEPT ![t] = "looked"]
    /\ UNCHANGED <<accounts, history, _locks, ntasks, call, prev, result>>
    /\ UNCHANGED <<deduplicated, updateVars, goalVars, curationVars>>

\* line 65: the effective-date gate, on the date the lookup read.
NewerOrEqualBug(effectiveDate, existingDate) == effectiveDate > existingDate

NewerOrEqual(effectiveDate, existingDate) == effectiveDate >= existingDate

\* An update that leaves the record's effectiveDate as it was.
UpsertUpdatedBug(row, c) ==
    [row EXCEPT !.value = c.value, !.source = c.source, !.isActive = c.isActive]

\* lines 66-75: update ... set value, effectiveDate, source, isActive where id = assetId
UpsertUpdated(row, c) ==
    [row EXCEPT !.value = c.value, !.effectiveDate = c.effectiveDate,
                !.source = c.source, !.isActive = c.isActive]

\* lines 78-89: the inserted record; the name is stored trimmed.
UpsertInserted(c) ==
    [userId |-> c.userId, type |-> c.type, name |-> trim(c.name), value |-> c.value,
     effectiveDate |-> c.effectiveDate, source |-> c.source, isActive |-> c.isActive]

\* lines 61-91: update the record found (if the date allows) or insert a new one.
UpsertWrite(t) ==
    /\ pc[t] = "looked"
    /\ call[t].op = "upsert"
    /\ LET c == call[t]
           e == existing[t]
       IN IF e.id # NoRow
          THEN /\ accounts' =
                    IF NewerOrEqual(c.effectiveDate, e.effectiveDate)
                    THEN [accounts EXCEPT ![c.kind][e.id] = UpsertUpdated(@, c)]
                    ELSE accounts
               /\ result' = [result EXCEPT ![t] = e.id]
          ELSE /\ accounts' = [accounts EXCEPT ![c.kind] = Append(@, UpsertInserted(c))]
               /\ result' = [result EXCEPT ![t] = Len(accounts[c.kind]) + 1]
    /\ pc' = [pc EXCEPT ![t] = "wrote"]
    /\ UNCHANGED <<history, _locks, ntasks, call, prev, existing>>
    /\ UNCHANGED <<deduplicated, updateVars, goalVars, curationVars>>

\* A history insert that skips a row the table already holds.
UpsertHistoryBug(t) ==
    /\ pc[t] = "wrote"
    /\ call[t].op = "upsert"
    /\ LET c == call[t]
           row == HistoryRow(result[t], c, c.source)
       IN history' = [history EXCEPT ![c.kind] =
                        IF \E i \in 1..Len(@) : @[i] = row THEN @ ELSE Append(@, row)]
    /\ pc' = [pc EXCEPT ![t] = "done"]
    /\ _locks' = LocksSettled(t)
    /\ UNCHANGED <<accounts, ntasks, call, prev, existing, result>>
    /\ UNCHANGED <<deduplicated, updateVars, goalVars, curationVars>>

\* lines 93-101: the history row, always; then the call returns and settles.
UpsertHistory(t) ==
    /\ pc[t] = "wrote"
    /\ call[t].op = "upsert"
    /\ LET c == call[t] IN
        history' = [history EXCEPT ![c.kind] = Append(@, HistoryRow(result[t], c, c.source))]
    /\ pc' = [pc EXCEPT ![t] = "done"]
    /\ _locks' = LocksSettled(t)
    /\ UNCHANGED <<accounts, ntasks, call, prev, existing, result>>
    /\ UNCHANGED <<deduplicated, updateVars, goalVars, curationVars>>

\* ---------------------------------------------------- getFinancialSummary

\* The rows of a main table; a table the behaviour does not use is empty.
Table(kind) == IF kind \in DOMAIN accounts THEN accounts[kind] ELSE <<>>

\* lines 278-296: select ... where userId = ? and isActive = true.
ActiveIds(kind, userId) ==
    {i \in 1..Len(Table(kind)) : Table(kind)[i].userId = userId /\ Table(kind)[i].isActive}

\* lines 298-299: rows.reduce((sum, a) => sum + Number(a.value), 0).
RECURSIVE SumValues(_, _)
SumValues(kind, ids) ==
    IF ids = {} THEN 0
    ELSE LET i == CHOOSE x \in ids : TRUE
         IN Table(kind)[i].value + SumValues(kind, ids \ {i})

\* lines 275-303: the active records of the user and their totals.
getFinancialSummary(userId) ==
    LET totalAssets == SumValues("asset", ActiveIds("asset", userId))
        totalDebts == SumValues("debt", ActiveIds("debt", userId))
    IN [assets |-> ActiveIds("asset", userId), debts |-> ActiveIds("debt", userId),
        totalAssets |-> totalAssets, totalDebts |-> totalDebts,
        netWorth |-> totalAssets - totalDebts]

\* ----------------------------------------------------------------- merge

MergeArgs ==
    { [op |-> "merge", kind |-> k, userId |-> u, type |-> ty, name |-> n,
       newName |-> nn, value |-> v, effectiveDate |-> d,
       source |-> "user_input", isActive |-> TRUE] :
        k \in Kinds, u \in Users, ty \in Types, n \in MergeNames, nn \in MergeNewNames,
        v \in MergeValues, d \in Dates }

\* mergeAsset / mergeDebt are called; name is existingName.
CallMerge == \E c \in MergeArgs : Call(c)

\* lines 175-184: the select by the old name; throws when there is no such record.
MergeLookup(t) ==
    /\ pc[t] = "queued"
    /\ call[t].op = "merge"
    /\ PrevSettled(t)
    /\ LET c == call[t] IN
        \E e \in Selected(c.kind, c.userId, c.name, c.type) :
            /\ existing' = [existing EXCEPT ![t] = e]
            /\ pc' = [pc EXCEPT ![t] = IF e.id = NoRow THEN "failed" ELSE "looked"]
            /\ _locks' = IF e.id = NoRow THEN LocksSettled(t) ELSE _locks
    /\ UNCHANGED <<accounts, history, ntasks, call, prev, result>>
    /\ UNCHANGED <<deduplicated, updateVars, goalVars, curationVars>>

\* A comparison of the names as given.
NameChangedBug(c) == c.newName # c.name

\* line 192
NameChanged(c) == toLowerCase(trim(c.newName)) # toLowerCase(trim(c.name))

\* lines 189-204: one update statement carrying the rename and the gated value.
MergeUpdated(row, c, e) ==
    LET renamed == IF NameChanged(c) THEN [row EXCEPT !.name = trim(c.newName)] ELSE row
    IN IF NewerOrEqual(c.effectiveDate, e.effectiveDate)
       THEN [renamed EXCEPT !.value = c.value, !.effectiveDate = c.effectiveDate]
       ELSE renamed

MergeWrite(t) ==
    /\ pc[t] = "looked"
    /\ call[t].op = "merge"
    /\ LET c == call[t]
           e == existing[t]
       IN /\ accounts' = [accounts EXCEPT ![c.kind][e.id] = MergeUpdated(@, c, e)]
          /\ result' = [result EXCEPT ![t] = e.id]
    /\ pc' = [pc EXCEPT ![t] = "wrote"]
    /\ UNCHANGED <<history, _locks, ntasks, call, prev, existing>>
    /\ UNCHANGED <<deduplicated, updateVars, goalVars, curationVars>>

\* lines 206-214: the history row under the id found, source "user_input"; the
\* call returns and settles.
MergeHistory(t) ==
    /\ pc[t] = "wrote"
    /\ call[t].op = "merge"
    /\ LET c == call[t] IN
        history' = [history EXCEPT ![c.kind] = Append(@, HistoryRow(result[t], c, "user_input"))]
    /\ pc' = [pc EXCEPT ![t] = "done"]
    /\ _locks' = LocksSettled(t)
    /\ UNCHANGED <<accounts, ntasks, call, prev, existing, result>>
    /\ UNCHANGED <<deduplicated, updateVars, goalVars, curationVars>>

\* ------------------------------------------------------------ createGoal

\* line 7: GOAL_SIMILARITY_THRESHOLD = 0.7, in tenths.
GOAL_SIMILARITY_THRESHOLD_TENTHS == 7

Min2(a, b) == IF a <= b THEN a ELSE b
Max2(a, b) == IF a >= b THEN a ELSE b

\* One row of the edit-distance table, for character ch of the first string.
RECURSIVE LevRow(_, _, _, _)
LevRow(ch, b, above, row) ==
    IF Len(row) = Len(b) + 1 THEN row
    ELSE LET j == Len(row)
         IN LevRow(ch, b, above,
                   Append(row, Min2(Min2(above[j + 1] + 1, row[j] + 1),
                                    above[j] + (IF ch = b[j] THEN 0 ELSE 1))))

RECURSIVE LevRows(_, _, _, _)
LevRows(a, b, i, above) ==
    IF i > Len(a) THEN above[Len(b) + 1]
    ELSE LevRows(a, b, i + 1, LevRow(a[i], b, above, <<i>>))

\* distance() of fastest-levenshtein: the Levenshtein distance.
distance(a, b) == LevRows(a, b, 1, [j \in 1..(Len(b) + 1) |-> j - 1])

\* calculateSimilarity(str1, str2) >= GOAL_SIMILARITY_THRESHOLD, lines 13-19 and 404:
\* 1 - distance/maxLen >= 0.7, with maxLen = 0 giving similarity 1. In integers:
\* 10 * (maxLen - distance) >= 7 * maxLen (1 - 3/10 >= 0.7 holds in IEEE doubles).
Similar(str1, str2) ==
    LET s1 == trim(toLowerCase(str1))
        s2 == trim(toLowerCase(str2))
        maxLen == Max2(Len(s1), Len(s2))
    IN IF maxLen = 0 THEN TRUE
       ELSE 10 * (maxLen - distance(s1, s2)) >= GOAL_SIMILARITY_THRESHOLD_TENTHS * maxLen

\* Goal titles as the callers pass them.
Titles ==
    { <<"B", "a", "a", "b">>,
      <<" ", "b", "a", "a", "b">>,
      <<"b", "a", "a", "a">>,
      <<"a", "a", "a", "a">>,
      <<"a", "a", "a", "a", "a", "a", "a", "a", "a", "a">>,
      <<"a", "a", "a", "a", "a", "a", "a", "b", "b", "b">> }

GoalUsers == {"u1", "u2"}

\* data.steps and data.resources of a createGoal call.
GoalData ==
    { [steps |-> <<[description |-> "s1", isUserDefined |-> TRUE]>>, resources |-> <<>>],
      [steps |-> <<[description |-> "s1", isUserDefined |-> FALSE],
                   [description |-> "s2", isUserDefined |-> TRUE]>>,
       resources |-> <<[stepIndex |-> 1, url |-> "r0"]>>] }

CreateGoalArgs ==
    { [op |-> "createGoal", userId |-> u, title |-> ti, steps |-> d.steps,
       resources |-> d.resources] :
        u \in GoalUsers, ti \in Titles, d \in GoalData }

\* financeService.createGoal is called.
CallCreateGoal == \E c \in CreateGoalArgs : Call(c)

\* calculateSimilarity(...) >= GOAL_SIMILARITY_THRESHOLD on every pair of titles
\* (computed once; stored titles are the titles passed, unchanged).
SimilarTitles == [a \in Titles |-> [b \in Titles |-> Similar(a, b)]]

\* A duplicate check that compares the titles as given.
SimilarGoalsBug(userId, title) ==
    {g \in 1..Len(goals) : goals[g].userId = userId /\ title = goals[g].title}

\* lines 400-408: the existing goals of the owner whose title is similar.
SimilarGoals(userId, title) ==
    {g \in 1..Len(goals) : goals[g].userId = userId /\ SimilarTitles[title][goals[g].title]}

\* lines 400-408: select the owner's goals and compare the titles; the first
\* similar one in the order the select returned them (no ORDER BY: any order)
\* is returned with deduplicated: true, and the call settles.
CreateGoalLookup(t) ==
    /\ pc[t] = "queued"
    /\ call[t].op = "createGoal"
    /\ PrevSettled(t)
    /\ LET c == call[t]
           sim == SimilarGoals(c.userId, c.title)
       IN IF sim # {}
          THEN /\ \E g \in sim : result' = [result EXCEPT ![t] = g]
               /\ deduplicated' = [deduplicated EXCEPT ![t] = TRUE]
               /\ pc' = [pc EXCEPT ![t] = "done"]
               /\ _locks' = LocksSettled(t)
          ELSE /\ pc' = [pc EXCEPT ![t] = "looked"]
               /\ UNCHANGED <<result, deduplicated, _locks>>
    /\ UNCHANGED <<ledgerVars, goalVars, curationVars, updateVars, ntasks, call, prev, existing>>

\* lines 424-433: the step rows of the new goal, numbered from 1.
NewSteps(goalId, steps) ==
    [i \in 1..Len(steps) |->
        [goalId |-> goalId, description |-> steps[i].description, order |-> i,
         isCompleted |-> FALSE, isUserDefined |-> steps[i].isUserDefined,
         intentExtracted |-> FALSE]]

\* lines 435-445: the resource rows given with the call, under the step with
\* their (0-based) stepIndex; step ids continue the step table.
RECURSIVE NewResources(_, _, _)
NewResources(firstStepId, nsteps, resources) ==
    IF resources = <<>> THEN <<>>
    ELSE LET r == Head(resources)
             rest == NewResources(firstStepId, nsteps, Tail(resources))
         IN IF r.stepIndex \in 0..(nsteps - 1)
            THEN <<[stepId |-> firstStepId + r.stepIndex, url |-> r.url]>> \o rest
            ELSE rest

\* lines 411-449: the transaction commits the goal, its steps and resources at
\* once; the call returns the new id with deduplicated: false and settles.
CreateGoalCommit(t) ==
    /\ pc[t] = "looked"
    /\ call[t].op = "createGoal"
    /\ LET c == call[t]
           goalId == Len(goals) + 1
       IN /\ goals' = Append(goals, [userId |-> c.userId, title |-> c.title, status |-> "active"])
          /\ goalSteps' = goalSteps \o NewSteps(goalId, c.steps)
          /\ goalResources' =
                goalResources \o NewResources(Len(goalSteps) + 1, Len(c.steps), c.resources)
          /\ result' = [result EXCEPT ![t] = goalId]
          /\ deduplicated' = [deduplicated EXCEPT ![t] = FALSE]
    /\ pc' = [pc EXCEPT ![t] = "done"]
    /\ _locks' = LocksSettled(t)
    /\ UNCHANGED <<ledgerVars, curationVars, updateVars, ntasks, call, prev, existing>>

\* What is visible of a transaction that failed: nothing of what it wrote.
RolledBackBug(before, written) == written

\* line 411 (db.transaction): an error in the callback rolls everything back.
RolledBack(before, written) == before

\* lines 413-445: the tables as the transaction sees them when its insert
\* number k + 1 fails: the goal row and the first k - 1 step rows (with their
\* resources) are written.
CreateGoalWritten(c, k) ==
    LET goalId == Len(goals) + 1
        steps == SubSeq(c.steps, 1, k - 1)
    IN [goals |-> IF k = 0 THEN goals
                  ELSE Append(goals, [userId |-> c.userId, title |-> c.title, status |-> "active"]),
        goalSteps |-> IF k = 0 THEN goalSteps ELSE goalSteps \o NewSteps(goalId, steps),
        goalResources |->
            IF k = 0 THEN goalResources
            ELSE goalResources \o NewResources(Len(goalSteps) + 1, Len(steps), c.resources)]

\* lines 411-449: an insert of the transaction fails (the goal's, k = 0, or the
\* one of step k): the transaction is rolled back and the call throws.
CreateGoalRollback(t) ==
    /\ pc[t] = "looked"
    /\ call[t].op = "createGoal"
    /\ \E k \in 0..Len(call[t].steps) :
          LET after == RolledBack([goals |-> goals, goalSteps |-> goalSteps,
                                   goalResources |-> goalResources],
                                  CreateGoalWritten(call[t], k))
          IN /\ goals' = after.goals
             /\ goalSteps' = after.goalSteps
             /\ goalResources' = after.goalResources
    /\ pc' = [pc EXCEPT ![t] = "failed"]
    /\ _locks' = LocksSettled(t)
    /\ UNCHANGED <<ledgerVars, curationVars, updateVars, ntasks, call, prev, existing>>
    /\ UNCHANGED <<result, deduplicated>>

\* ------------------------------------------------------------ updateGoal

\* Goal ids an updateGoal is called with: the first goal's, and one no goal has.
GoalIds == {1, 9}

\* updates: a status, or new steps.
UpdateData ==
    { [status |-> "completed", newSteps |-> <<>>],
      [status |-> "none", newSteps |-> <<"n1">>],
      [status |-> "none", newSteps |-> <<"n1", "n2">>] }

UpdateGoalArgs ==
    { [op |-> "updateGoal", userId |-> u, goalId |-> g, status |-> d.status,
       newSteps |-> d.newSteps] :
        u \in GoalUsers, g \in GoalIds, d \in UpdateData }

\* line 453-459: financeService.updateGoal is called (not through
\* runSerialized); the ownership select is issued.
CallUpdateGoal ==
    /\ ntasks < MaxTasks
    /\ \E c \in UpdateGoalArgs :
        LET t == ntasks + 1 IN
            /\ ntasks' = t
            /\ call' = [call EXCEPT ![t] = c]
            /\ pc' = [pc EXCEPT ![t] = "called"]
    /\ UNCHANGED <<ledgerVars, goalVars, curationVars, updateVars>>
    /\ UNCHANGED <<_locks, prev, existing, result, deduplicated>>

\* A check that the goal exists, whoever owns it.
GoalOwnedBug(userId, goalId) == goalId \in 1..Len(goals)

\* line 459: select from goals where id = goalId and userId = userId.
GoalOwned(userId, goalId) ==
    IF goalId \in 1..Len(goals) THEN goals[goalId].userId = userId ELSE FALSE

\* lines 459-462: the select returns; "Goal not found" is thrown when it has
\* no row, otherwise the transaction begins and the update of the goal is issued.
UpdateGoalLookup(t) ==
    /\ pc[t] = "called"
    /\ call[t].op = "updateGoal"
    /\ pc' = [pc EXCEPT ![t] =
                IF GoalOwned(call[t].userId, call[t].goalId) THEN "owned" ELSE "failed"]
    /\ UNCHANGED <<ledgerVars, goalVars, curationVars, updateVars>>
    /\ UNCHANGED <<_locks, ntasks, call, prev, existing, result, deduplicated>>

\* An update that does not wait for the transaction holding the row.
UpdateGoalSetBug(t) ==
    /\ pc[t] = "owned"
    /\ goalRowLock' = goalRowLock \cup {<<call[t].goalId, t>>}
    /\ pc' = [pc EXCEPT ![t] = "updated"]
    /\ UNCHANGED <<ledgerVars, goalVars, curationVars, nextOrder>>
    /\ UNCHANGED <<_locks, ntasks, call, prev, existing, result, deduplicated>>

\* lines 464-474: the update of the goal row is executed in the transaction: it
\* waits while another open transaction has updated that row, and keeps the
\* row locked until this transaction ends.
UpdateGoalSet(t) ==
    /\ pc[t] = "owned"
    /\ \A l \in goalRowLock : l[1] # call[t].goalId
    /\ goalRowLock' = goalRowLock \cup {<<call[t].goalId, t>>}
    /\ pc' = [pc EXCEPT ![t] = "updated"]
    /\ UNCHANGED <<ledgerVars, goalVars, curationVars, nextOrder>>
    /\ UNCHANGED <<_locks, ntasks, call, prev, existing, result, deduplicated>>

StepsOfGoal(goalId) == {s \in 1..Len(goalSteps) : goalSteps[s].goalId = goalId}

\* A numbering that restarts at 1.
NextOrderBug(goalId) == 1

\* lines 474-475: nextOrder = existingSteps.length + 1.
NextOrder(goalId) == Cardinality(StepsOfGoal(goalId)) + 1

\* lines 471-475: with new steps, the steps of the goal are selected and counted.
UpdateGoalCount(t) ==
    /\ pc[t] = "updated"
    /\ Len(call[t].newSteps) > 0
    /\ nextOrder' = [nextOrder EXCEPT ![t] = NextOrder(call[t].goalId)]
    /\ pc' = [pc EXCEPT ![t] = "counted"]
    /\ UNCHANGED <<ledgerVars, goalVars, curationVars, goalRowLock>>
    /\ UNCHANGED <<_locks, ntasks, call, prev, existing, result, deduplicated>>

\* lines 477-485: the rows of the new steps.
AppendedSteps(goalId, newSteps, first) ==
    [i \in 1..Len(newSteps) |->
        [goalId |-> goalId, description |-> newSteps[i], order |-> first + i - 1,
         isCompleted |-> FALSE, isUserDefined |-> FALSE, intentExtracted |-> FALSE]]

\* lines 462-487: the transaction commits: the goal row has the new status (when
\* one was given) and the new steps are appended; the row lock is released.
UpdateGoalCommit(t) ==
    /\ \/ pc[t] = "counted"
       \/ pc[t] = "updated" /\ Len(call[t].newSteps) = 0
    /\ LET c == call[t]
       IN /\ goals' = IF c.status = "none" THEN goals
                      ELSE [goals EXCEPT ![c.goalId].status = c.status]
          /\ goalSteps' = goalSteps \o AppendedSteps(c.goalId, c.newSteps, nextOrder[t])
    /\ goalRowLock' = goalRowLock \ {<<call[t].goalId, t>>}
    /\ pc' = [pc EXCEPT ![t] = "done"]
    /\ UNCHANGED <<ledgerVars, goalResources, curationVars, nextOrder>>
    /\ UNCHANGED <<_locks, ntasks, call, prev, existing, result, deduplicated>>

\* lines 462-487: a statement of the transaction fails: rollback, the call throws.
UpdateGoalRollback(t) ==
    /\ pc[t] \in {"owned", "updated", "counted"}
    /\ call[t].op = "updateGoal"
    /\ goalRowLock' = goalRowLock \ {<<call[t].goalId, t>>}
    /\ pc' = [pc EXCEPT ![t] = "failed"]
    /\ UNCHANGED <<ledgerVars, goalVars, curationVars, nextOrder>>
    /\ UNCHANGED <<_locks, ntasks, call, prev, existing, result, deduplicated>>

\* ------------------------------------------------------ getFinancialHistory

\* Milliseconds of a day, and of 23:59:59 into it (lines 338 and 354).
DAY_MS == 86400000
END_OF_DAY_MS == 86399000

\* Length of a history table.
MaxHistory == 3

\* Effective dates, in ms: day 0 at 12:00:00.000 and at 23:59:59.500, day 1 at
\* 01:00:00.000 (UTC).
HistoryTimes == {43200000, 86399500, 90000000}

\* Offsets of the server's local time from UTC, in ms: UTC, UTC+8, UTC-8.
TimeZones == {0, 28800000, -28800000}

HistoryKinds == {"asset", "debt"}

\* The main records: an asset of u1, an asset of u2, a debt of u1.
HistoryOwners == [asset |-> <<"u1", "u2">>, debt |-> <<"u1">>]

HistoryValues == [asset |-> {10, 30}, debt |-> {5}]

HistoryRows(kind) ==
    [id : 1..Len(HistoryOwners[kind]), value : HistoryValues[kind],
     effectiveDate : HistoryTimes, source : {"user_input"}]

HistoryTables(kind, maxLen) == UNION {[1..n -> HistoryRows(kind)] : n \in 0..maxLen}

\* The main record of an account with the given history rows.
MainRecord(kind, id, rows) ==
    LET own == {k \in 1..Len(rows) : rows[k].id = id}
        last == IF own = {} THEN 0
                ELSE CHOOSE k \in own : \A m \in own :
                        \/ rows[m].effectiveDate < rows[k].effectiveDate
                        \/ rows[m].effectiveDate = rows[k].effectiveDate /\ m <= k
    IN [userId |-> HistoryOwners[kind][id], type |-> "checking", name |-> <<"A">>,
        value |-> IF last = 0 THEN 0 ELSE rows[last].value,
        effectiveDate |-> IF last = 0 THEN 0 ELSE rows[last].effectiveDate,
        source |-> "user_input", isActive |-> TRUE]

\* toISOString().split('T')[0] (line 338): the UTC day of a time.
DateStr(ms) == ms \div DAY_MS

\* new Date(dateStr + 'T23:59:59') (line 354): 23:59:59.000 of the day in the
\* server's local time, as UTC ms.
EndOfDay(dateStr, offset) == dateStr * DAY_MS + END_OF_DAY_MS - offset

\* lines 311-332: the history rows of the user's accounts, in a given order.
UserHistory(kind, userId, order) ==
    SelectSeq([k \in 1..Len(order) |-> history[kind][order[k]]],
              LAMBDA h : accounts[kind][h.id].userId = userId)

\* orderBy(effectiveDate): the orders in which the query may return the rows.
OrderedBy(kind) ==
    {q \in [1..Len(history[kind]) -> 1..Len(history[kind])] :
        /\ \A a, b \in 1..Len(history[kind]) : q[a] = q[b] => a = b
        /\ \A a, b \in 1..Len(history[kind]) :
              a < b => history[kind][q[a]].effectiveDate <= history[kind][q[b]].effectiveDate}

\* lines 353-358: .filter(...).pop(): the value of the last row of the account
\* that is not after the end of the day, 0 when there is none.
LatestValue(rows, id, dateStr, offset) ==
    LET upTo == SelectSeq(rows, LAMBDA h :
                    h.id = id /\ h.effectiveDate <= EndOfDay(dateStr, offset))
    IN IF upTo = <<>> THEN 0 ELSE upTo[Len(upTo)].value

RECURSIVE SumOver(_, _, _, _)
SumOver(ids, rows, dateStr, offset) ==
    IF ids = {} THEN 0
    ELSE LET id == CHOOSE i \in ids : TRUE
         IN LatestValue(rows, id, dateStr, offset) + SumOver(ids \ {id}, rows, dateStr, offset)

\* lines 349-359: the total over the distinct accounts of the rows.
TotalAt(rows, dateStr, offset) ==
    SumOver({rows[k].id : k \in 1..Len(rows)}, rows, dateStr, offset)

\* Array.from(uniqueDates).sort() (line 341).
RECURSIVE SortedDates(_)
SortedDates(dates) ==
    IF dates = {} THEN <<>>
    ELSE LET least == CHOOSE d \in dates : \A e \in dates : d <= e
         IN <<least>> \o SortedDates(dates \ {least})

\* lines 334-381: the time series built from the two query results.
TimeSeriesOf(assetRows, debtRows, offset) ==
    LET uniqueDates == {DateStr(assetRows[k].effectiveDate) : k \in 1..Len(assetRows)}
                       \cup {DateStr(debtRows[k].effectiveDate) : k \in 1..Len(debtRows)}
        sortedDates == SortedDates(uniqueDates)
    IN [i \in 1..Len(sortedDates) |->
          LET currentAssets == TotalAt(assetRows, sortedDates[i], offset)
              currentDebts == TotalAt(debtRows, sortedDates[i], offset)
          IN [date |-> sortedDates[i], assets |-> currentAssets, debts |-> currentDebts,
              netWorth |-> currentAssets - currentDebts]]

HistoryUser == "u1"

\* lines 309-382: getFinancialHistory(userId) runs its two queries and returns.
GetFinancialHistory ==
    /\ timeSeries = NoSeries
    /\ \E qa \in OrderedBy("asset"), qd \in OrderedBy("debt") :
          timeSeries' = TimeSeriesOf(UserHistory("asset", HistoryUser, qa),
                                     UserHistory("debt", HistoryUser, qd), tz)
    /\ UNCHANGED <<ledgerVars, taskVars, goalVars, _curationLock, njobs, jobs, sinceSearch,
                   curateVars, tz>>

\* ------------------------------------------- inputs of curateResources

\* Length of the resources array of an LLM response.
MaxResources == 6

\* URLs of candidates, a URL that differs from a candidate's in case only, and
\* a URL no candidate has.
CandidateLists == { <<>>, <<"r1">>, <<"r1", "r2">> }
ResponseUrls == {"r1", "r2", "R1", "x9"}

ResourceLists ==
    UNION {[1..n -> [url : ResponseUrls]] : n \in 0..MaxResources}

\* The curation LLM's response: text without JSON, JSON without a resources
\* array, or JSON with resources and an insufficientSources that is true, false
\* or absent.
CurateResponses ==
    { [kind |-> "nojson"], [kind |-> "noresources"] }
    \cup [kind : {"ok"}, resources : ResourceLists,
          insufficientSources : {"true", "false", "undefined"}]

CurateInputs == [candidates : CandidateLists, response : CurateResponses]

NoArgs == [candidates |-> <<>>, response |-> [kind |-> "nojson"]]
NoResult == [kind |-> "none"]

\* ------------------------------------------------- curateResources (part_011)

\* line 66: fewer than 5 valid resources force insufficientSources.
MIN_RESOURCES == 5

\* A comparison of URLs that ignores their case.
UrlInCandidatesBug(url, candidates) ==
    \E i \in 1..Len(candidates) :
        candidates[i] = url \/ (url = "R1" /\ candidates[i] = "r1")

\* line 57-58: candidateUrls.has(r.url): the URL is, character for character,
\* the URL of one of the candidates.
UrlInCandidates(url, candidates) == \E i \in 1..Len(candidates) : candidates[i] = url

\* line 58: parsed.resources.filter(r => candidateUrls.has(r.url)).
RECURSIVE validResources(_, _)
validResources(resources, candidates) ==
    IF resources = <<>> THEN <<>>
    ELSE IF UrlInCandidates(Head(resources).url, candidates)
         THEN <<Head(resources)>> \o validResources(Tail(resources), candidates)
         ELSE validResources(Tail(resources), candidates)

\* A JSON value used as a condition: true is truthy, false and undefined are not.
Truthy(v) == v = "true"

\* line 49-54: the response has no JSON object, or one without a resources array:
\* curateResources throws.
CurateThrows(response) == response.kind # "ok"

\* lines 56-68: what curateResources returns for a response it could parse.
curateResources(candidates, response) ==
    LET valid == validResources(response.resources, candidates)
    IN [resources |-> valid,
        insufficientSources |-> Truthy(response.insufficientSources) \/ Len(valid) < MIN_RESOURCES]

\* curateResources is called with the candidates and the LLM's response.
CurateResourcesReturns ==
    /\ curateResult = NoResult
    /\ ~CurateThrows(curateArgs.response)
    /\ curateResult' =
          [kind |-> "returned"] @@ curateResources(curateArgs.candidates, curateArgs.response)
    /\ UNCHANGED <<ledgerVars, taskVars, goalVars, historyVars, sinceSearch, _curationLock, njobs, jobs, curateArgs>>

CurateResourcesThrows ==
    /\ curateResult = NoResult
    /\ CurateThrows(curateArgs.response)
    /\ curateResult' = [kind |-> "thrown"]
    /\ UNCHANGED <<ledgerVars, taskVars, goalVars, historyVars, sinceSearch, _curationLock, njobs, jobs, curateArgs>>

\* ------------------------------------------ the curation pipeline (part_010)

\* line 26-37: await prev passes once the promise taken from _curationLock is
\* resolved: it was the initial one, or its job has run its finally block.
JobFinished(j) == jobs[j].pc \in {"done", "failed"}

CurationPrevReleasedBug(j) == TRUE

CurationPrevReleased(j) ==
    IF jobs[j].prev = NoJob THEN TRUE ELSE JobFinished(jobs[j].prev)

NoRet == [success |-> FALSE, resourceCount |-> -1, error |-> "none"]

\* No response of the intent LLM has been parsed.
NoParsed == [none |-> TRUE]

IdleJob ==
    [pc |-> "idle", goalId |-> 0, task |-> NoTask, prev |-> NoJob, pending |-> FALSE,
     steps |-> <<>>, i |-> 0,
     log |-> <<>>, before |-> <<>>, parsed |-> NoParsed, queryTerms |-> <<>>, requests |-> 0,
     candidates |-> <<>>, resources |-> <<>>, ret |-> NoRet]

\* The positions of a job inside curateResourcesForStep: the call it awaits.
Stages == {"intent", "saveIntent", "search", "curate", "delete", "insert"}

\* lines 147-152 and 27-32: curateResourcesForGoal(goalId) is called (for the
\* goal that ledger call task returned, when a tool calls it): the job
\* takes the current _curationLock as prev, installs its own promise and awaits prev.
EnqueueCuration(goalId, task) ==
    /\ njobs < MaxJobs
    /\ LET j == njobs + 1
       IN /\ njobs' = j
          /\ _curationLock' = j
          /\ jobs' = [jobs EXCEPT ![j] =
                        [IdleJob EXCEPT !.pc = "waiting", !.goalId = goalId, !.task = task,
                                        !.prev = _curationLock,
                                        !.pending = IF _curationLock = NoJob THEN FALSE
                                                    ELSE ~JobFinished(_curationLock)]]
    /\ UNCHANGED <<ledgerVars, taskVars, goalVars, curateVars, historyVars, sinceSearch>>

\* curateResourcesForGoal(goalId) called by itself.
CurateResourcesForGoal(goalId) == EnqueueCuration(goalId, NoTask)

\* The create_goal tools: of the conversation route (part_000) and of the
\* advisor service (advisor/index.ts), which enqueue the curation of whatever
\* goal createGoal returned, and the advisor service's variant that returns
\* before that when the goal was deduplicated (SummaryCards.tsx lines 346-354).
CreateGoalTools == {"conversation", "advisor", "advisorChecked"}

\* The tool tells the caller of an existing goal and enqueues nothing.
ToolSkips(tool, t) == tool = "advisorChecked" /\ deduplicated[t]

\* No job has been enqueued for the goal that call t returned.
ToolPending(t) ==
    /\ pc[t] = "done"
    /\ call[t].op = "createGoal"
    /\ \A j \in 1..njobs : jobs[j].task # t

\* advisor/index.ts lines 139-145, part_000 lines 225-228: createGoal has
\* returned to the create_goal tool, which calls curateResourcesForGoal with
\* result.goalId and does not await it.
CreateGoalToolCurates(t) ==
    /\ ToolPending(t)
    /\ \E tool \in CreateGoalTools :
          /\ ~ToolSkips(tool, t)
          /\ EnqueueCuration(result[t], t)

CallCurateResourcesForGoal == \E g \in 1..Len(goals) : CurateResourcesForGoal(g)

StepIdsOf(goalId) == {s \in 1..Len(goalSteps) : goalSteps[s].goalId = goalId}

\* The orders in which a select without ORDER BY may return the rows.
Orderings(S) ==
    {q \in [1..Cardinality(S) -> S] : \A a, b \in 1..Cardinality(S) : q[a] = q[b] => a = b}

\* part_010 line 119 (where stepId = ?): the URLs of the goal_resources rows of a
\* step, in table order.
ResourceUrlsOf(stepId) ==
    LET rows == SelectSeq(goalResources, LAMBDA row : row.stepId = stepId)
    IN [k \in 1..Len(rows) |-> rows[k].url]

\* line 55-59: curateResourcesForStep starts on step i: extractIntentSpec is
\* called. The job record keeps, beside the calls made (log), the resources the
\* step has at this moment (before), until the job ends.
BeginStep(r, i) ==
    [r EXCEPT !.pc = "intent", !.i = i, !.log = <<"intent">>, !.parsed = NoParsed,
              !.before = ResourceUrlsOf(r.steps[i]),
              !.queryTerms = <<>>, !.requests = 0, !.candidates = <<>>, !.resources = <<>>, !.ret = NoRet]

\* lines 154-163: prev is resolved; the job selects the steps of its goal and
\* starts on the first one, or returns when there is none.
JobSelectSteps(j) ==
    /\ jobs[j].pc = "waiting"
    /\ CurationPrevReleased(j)
    /\ \E steps \in Orderings(StepIdsOf(jobs[j].goalId)) :
          jobs' = [jobs EXCEPT ![j] =
                     IF steps = <<>> THEN [@ EXCEPT !.pc = "done"]
                     ELSE BeginStep([@ EXCEPT !.steps = steps], 1)]
    /\ UNCHANGED <<ledgerVars, taskVars, goalVars, curateVars, historyVars, sinceSearch, _curationLock, njobs>>

\* lines 154-156 and 34-36: the select fails: the job function throws, the
\* finally block resolves the job's promise and the error goes to the caller.
JobSelectFails(j) ==
    /\ jobs[j].pc = "waiting"
    /\ CurationPrevReleased(j)
    /\ jobs' = [jobs EXCEPT ![j].pc = "failed"]
    /\ UNCHANGED <<ledgerVars, taskVars, goalVars, curateVars, historyVars, sinceSearch, _curationLock, njobs>>

\* lines 83, 100-103, 163-166: curateResourcesForStep returns; the job awaits the delay.
StepReturn(r, ret) ==
    [r EXCEPT !.pc = "delay", !.ret = ret, !.parsed = NoParsed, !.queryTerms = <<>>]

\* A step whose error leaves curateResourcesForStep and the job function.
StepCatchBug(r, stage) == [r EXCEPT !.pc = "failed"]

\* lines 104-111: the catch block turns an error of any stage into a result.
StepCatch(r, stage) ==
    StepReturn(r, [success |-> FALSE, resourceCount |-> 0, error |-> stage])

\* The job goes on to the next call of curateResourcesForStep.
Advance(r, stage) == [r EXCEPT !.pc = stage, !.log = Append(@, stage)]

\* line 59 (part_017 lines 28-40): the intent LLM call throws or its text has
\* no parsable JSON.
ExtractIntentFails(j) ==
    /\ jobs[j].pc = "intent"
    /\ jobs' = [jobs EXCEPT ![j] = StepCatch(@, "intent")]
    /\ UNCHANGED <<ledgerVars, taskVars, goalVars, curateVars, historyVars, sinceSearch, _curationLock, njobs>>

\* The queryTerms the intent LLM may give.
QueryTermLists == { <<>>, <<"q1">>, <<"q1", "q2">> }

\* The JSON objects the intent LLM may answer with: every field given, with each
\* of the query term lists; without userJob; without queryTerms; without
\* constraints and resourceTypesNeeded.
IntentResponses ==
    { [userJob |-> "learn", constraints |-> "budget", resourceTypesNeeded |-> "tool",
       queryTerms |-> q] : q \in QueryTermLists }
    \cup { [constraints |-> "budget", resourceTypesNeeded |-> "tool", queryTerms |-> <<"q1">>],
           [userJob |-> "learn", constraints |-> "budget", resourceTypesNeeded |-> "tool"],
           [userJob |-> "learn", queryTerms |-> <<"q1">>] }

\* parsed.field: undefined when the object has no such field.
Field(parsed, field) == IF field \in DOMAIN parsed THEN parsed[field] ELSE "undefined"

\* parsed.field || default
FieldOr(parsed, field, default) == IF field \in DOMAIN parsed THEN parsed[field] ELSE default

\* part_017 lines 43-49: the intent spec built from the parsed object.
intentSpec(parsed) ==
    [userJob |-> Field(parsed, "userJob"),
     constraints |-> FieldOr(parsed, "constraints", "{}"),
     resourceTypesNeeded |-> FieldOr(parsed, "resourceTypesNeeded", "guide"),
     queryTerms |-> FieldOr(parsed, "queryTerms", <<>>)]

\* lines 59-63: extractIntentSpec returns; the update of the step is issued.
ExtractIntent(j) ==
    /\ jobs[j].pc = "intent"
    /\ \E parsed \in IntentResponses :
          jobs' = [jobs EXCEPT ![j] =
                     Advance([@ EXCEPT !.parsed = parsed,
                                       !.queryTerms = intentSpec(parsed).queryTerms],
                             "saveIntent")]
    /\ UNCHANGED <<ledgerVars, taskVars, goalVars, curateVars, historyVars, sinceSearch, _curationLock, njobs>>

\* lines 63-71: the update fails.
SaveIntentFails(j) ==
    /\ jobs[j].pc = "saveIntent"
    /\ jobs' = [jobs EXCEPT ![j] = StepCatch(@, "saveIntent")]
    /\ UNCHANGED <<ledgerVars, taskVars, goalVars, curateVars, historyVars, sinceSearch, _curationLock, njobs>>

\* part_014 line 85: queryTerms.slice(0, 1).
limitedQueries(queryTerms) == SubSeq(queryTerms, 1, Min2(1, Len(queryTerms)))

\* A search that runs every query term.
SearchRequestsBug(queryTerms) == Len(queryTerms)

\* part_014 lines 88-90 and 60: one fetch per limited query.
SearchRequests(queryTerms) == Len(limitedQueries(queryTerms))

\* lines 63-74: the step row gets the intent fields; searchCandidates is called
\* and issues its requests.
SaveIntent(j) ==
    /\ jobs[j].pc = "saveIntent"
    /\ LET s == jobs[j].steps[jobs[j].i]
       IN goalSteps' = [goalSteps EXCEPT ![s].intentExtracted = TRUE]
    /\ jobs' = [jobs EXCEPT ![j] =
                  Advance([@ EXCEPT !.requests = SearchRequests(jobs[j].queryTerms)], "search")]
    /\ sinceSearch' = IF SearchRequests(jobs[j].queryTerms) > 0 THEN 0 ELSE sinceSearch
    /\ UNCHANGED <<ledgerVars, taskVars, goals, goalResources, curateVars, historyVars, _curationLock, njobs>>

\* A search that is tried once more after it has thrown.
SearchFailsBug(j) ==
    /\ jobs[j].pc = "search"
    /\ jobs[j].requests > 0
    /\ jobs' = [jobs EXCEPT ![j] =
                  IF Len(@.log) < 4 THEN Advance(@, "search") ELSE StepCatch(@, "search")]
    /\ UNCHANGED <<ledgerVars, taskVars, goalVars, curateVars, historyVars, sinceSearch, _curationLock, njobs>>

\* line 74 (part_014 lines 46-48, 68-71): the search throws.
SearchFails(j) ==
    /\ jobs[j].pc = "search"
    /\ jobs[j].requests > 0
    /\ jobs' = [jobs EXCEPT ![j] = StepCatch(@, "search")]
    /\ UNCHANGED <<ledgerVars, taskVars, goalVars, curateVars, historyVars, sinceSearch, _curationLock, njobs>>

\* The URLs of the candidates that filterCandidates may leave of a search.
FilteredCandidates == { <<>>, <<"r1", "r2">> }

\* What the curation LLM may answer in the pipeline.
PipelineResponses ==
    { [kind |-> "nojson"],
      [kind |-> "ok", resources |-> <<[url |-> "r1"], [url |-> "x9"]>>, insufficientSources |-> "false"],
      [kind |-> "ok", resources |-> <<[url |-> "x9"]>>, insufficientSources |-> "undefined"] }

\* A check that lets every list through.
NoCandidatesBug(found) == FALSE

\* line 81: filteredCandidates.length === 0.
NoCandidates(found) == Len(found) = 0

\* lines 74-87: the search returns and is filtered; with no candidate left the
\* step returns 'No candidates found', otherwise curateResources is called.
Search(j) ==
    /\ jobs[j].pc = "search"
    /\ \E found \in FilteredCandidates :
          /\ jobs[j].requests = 0 => found = <<>>
          /\ jobs' = [jobs EXCEPT ![j] =
                     IF NoCandidates(found)
                     THEN StepReturn([@ EXCEPT !.log = Append(@, "filter")],
                                     [success |-> FALSE, resourceCount |-> 0,
                                      error |-> "No candidates found"])
                     ELSE Advance([@ EXCEPT !.candidates = found,
                                            !.log = Append(@, "filter")], "curate")]
    /\ UNCHANGED <<ledgerVars, taskVars, goalVars, curateVars, historyVars, sinceSearch, _curationLock, njobs>>

\* lines 87-97 and 119: the curation LLM answers; curateResources throws, or
\* returns the valid resources and the delete of the step's rows is issued.
Curate(j) ==
    /\ jobs[j].pc = "curate"
    /\ \E response \in PipelineResponses :
          jobs' = [jobs EXCEPT ![j] =
                     IF CurateThrows(response) THEN StepCatch(@, "curate")
                     ELSE Advance([@ EXCEPT !.resources =
                                       curateResources(jobs[j].candidates, response).resources],
                                  "delete")]
    /\ UNCHANGED <<ledgerVars, taskVars, goalVars, curateVars, historyVars, sinceSearch, _curationLock, njobs>>

\* line 119: the delete fails.
DeleteResourcesFails(j) ==
    /\ jobs[j].pc = "delete"
    /\ jobs' = [jobs EXCEPT ![j] = StepCatch(@, "delete")]
    /\ UNCHANGED <<ledgerVars, taskVars, goalVars, curateVars, historyVars, sinceSearch, _curationLock, njobs>>

\* lines 100-103: the step succeeded.
StepSuccess(r) ==
    StepReturn(r, [success |-> TRUE, resourceCount |-> Len(r.resources), error |-> "none"])

\* A persist stage that keeps the rows the step already has.
DeleteResourcesBug(j) ==
    /\ jobs[j].pc = "delete"
    /\ jobs' = [jobs EXCEPT ![j] =
                  IF Len(@.resources) > 0 THEN Advance(@, "insert") ELSE StepSuccess(@)]
    /\ UNCHANGED <<ledgerVars, taskVars, goalVars, curateVars, historyVars, sinceSearch, _curationLock, njobs>>

\* lines 119-123: the rows of the step are deleted; the insert is issued when
\* there are resources, otherwise the step returns success.
DeleteResources(j) ==
    /\ jobs[j].pc = "delete"
    /\ LET s == jobs[j].steps[jobs[j].i]
       IN goalResources' = SelectSeq(goalResources, LAMBDA row : row.stepId # s)
    /\ jobs' = [jobs EXCEPT ![j] =
                  IF Len(@.resources) > 0 THEN Advance(@, "insert") ELSE StepSuccess(@)]
    /\ UNCHANGED <<ledgerVars, taskVars, goals, goalSteps, curateVars, historyVars, sinceSearch, _curationLock, njobs>>

\* lines 123-133: the insert fails.
InsertResourcesFails(j) ==
    /\ jobs[j].pc = "insert"
    /\ jobs' = [jobs EXCEPT ![j] = StepCatch(@, "insert")]
    /\ UNCHANGED <<ledgerVars, taskVars, goalVars, curateVars, historyVars, sinceSearch, _curationLock, njobs>>

\* lines 123-133 and 100-103: the rows are inserted; the step returns success.
InsertResources(j) ==
    /\ jobs[j].pc = "insert"
    /\ LET s == jobs[j].steps[jobs[j].i]
           rows == [k \in 1..Len(jobs[j].resources) |->
                        [stepId |-> s, url |-> jobs[j].resources[k].url]]
       IN goalResources' = goalResources \o rows
    /\ jobs' = [jobs EXCEPT ![j] = StepSuccess(@)]
    /\ UNCHANGED <<ledgerVars, taskVars, goals, goalSteps, curateVars, historyVars, sinceSearch, _curationLock, njobs>>

\* lines 167-170: the loop is over and the job function returns; the values of
\* its last step are gone.
Finish(r) ==
    [r EXCEPT !.pc = "done", !.log = <<>>, !.before = <<>>, !.parsed = NoParsed,
              !.queryTerms = <<>>, !.requests = 0,
              !.candidates = <<>>, !.resources = <<>>, !.ret = NoRet]

\* line 166: setTimeout(resolve, 1100).
INTER_STEP_DELAY_MS == 1100

\* The time known to have passed since the last search request, after ms more;
\* it is followed up to the delay only.
Elapsed(since, ms) ==
    IF since = NoSearch THEN NoSearch ELSE Min2(INTER_STEP_DELAY_MS, since + ms)

\* A loop that delays between the steps only, not after the last one.
DelayBug(j) ==
    /\ jobs[j].pc = "delay"
    /\ jobs' = [jobs EXCEPT ![j] =
                  IF @.i < Len(@.steps) THEN BeginStep(@, @.i + 1) ELSE Finish(@)]
    /\ sinceSearch' = IF jobs[j].i < Len(jobs[j].steps)
                      THEN Elapsed(sinceSearch, INTER_STEP_DELAY_MS) ELSE sinceSearch
    /\ UNCHANGED <<ledgerVars, taskVars, goalVars, curateVars, historyVars, _curationLock, njobs>>

\* lines 161-169 and 34-36: the delay is over; the loop goes to the next step,
\* or the job function returns and the finally block resolves the job's promise.
Delay(j) ==
    /\ jobs[j].pc = "delay"
    /\ jobs' = [jobs EXCEPT ![j] =
                  IF @.i < Len(@.steps) THEN BeginStep(@, @.i + 1) ELSE Finish(@)]
    /\ sinceSearch' = Elapsed(sinceSearch, INTER_STEP_DELAY_MS)
    /\ UNCHANGED <<ledgerVars, taskVars, goalVars, curateVars, historyVars, _curationLock, njobs>>

\* ------------------------------------------------------- the specification

\* No curation job has been enqueued.
InitNoJobs ==
    /\ _curationLock = NoJob
    /\ sinceSearch = NoSearch
    /\ njobs = 0
    /\ jobs = [j \in Jobs |-> IdleJob]

\* No curateResources call is modelled.
InitNoCurate ==
    /\ curateArgs = NoArgs
    /\ curateResult = NoResult

\* No getFinancialHistory call is modelled.
InitNoHistoryCall ==
    /\ tz = 0
    /\ timeSeries = NoSeries

\* No ledger call has been issued.
InitNoCalls ==
    /\ call = [t \in Tasks |-> NoCall]
    /\ pc = [t \in Tasks |-> "idle"]
    /\ result = [t \in Tasks |-> NoRow]

NoExisting == [id |-> NoRow, effectiveDate |-> 0]

\* Nothing has run yet.
InitEmpty ==
    /\ accounts = [k \in Kinds |-> <<>>]
    /\ history = [k \in Kinds |-> <<>>]
    /\ call = [t \in Tasks |-> NoCall]
    /\ pc = [t \in Tasks |-> "idle"]
    /\ result = [t \in Tasks |-> NoRow]

\* The calls that may have completed before: an upsert of account "A" that
\* found no record, inserted it and wrote its history row.
SeedCalls == {c \in UpsertArgs : c.name = <<"A">> /\ c.value = 10}

InitSeeded(c) ==
    /\ accounts = [k \in Kinds |-> IF k = c.kind THEN <<UpsertInserted(c)>> ELSE <<>>]
    /\ history = [k \in Kinds |-> IF k = c.kind THEN <<HistoryRow(1, c, c.source)>> ELSE <<>>]
    /\ call = [t \in Tasks |-> IF t = SeedTask THEN c ELSE NoCall]
    /\ pc = [t \in Tasks |-> IF t = SeedTask THEN "done" ELSE "idle"]
    /\ result = [t \in Tasks |-> IF t = SeedTask THEN 1 ELSE NoRow]

\* No call is in flight.
InitTasks ==
    /\ _locks = {}
    /\ ntasks = 0
    /\ prev = [t \in Tasks |-> NoTask]
    /\ existing = [t \in Tasks |-> NoExisting]
    /\ deduplicated = [t \in Tasks |-> FALSE]
    /\ goalRowLock = {}
    /\ nextOrder = [t \in Tasks |-> 0]

InitNoGoals ==
    /\ goals = <<>>
    /\ goalSteps = <<>>
    /\ goalResources = <<>>

InitNoAccounts ==
    /\ accounts = [k \in Kinds |-> <<>>]
    /\ history = [k \in Kinds |-> <<>>]

Init ==
    /\ InitTasks
    /\ InitNoGoals
    /\ InitNoJobs
    /\ InitNoCurate
    /\ InitNoHistoryCall
    /\ \/ InitEmpty
       \/ \E c \in SeedCalls : InitSeeded(c)

Next ==
    \/ CallUpsert
    \/ CallMerge
    \/ \E t \in Tasks : UpsertLookup(t)
    \/ \E t \in Tasks : UpsertWrite(t)
    \/ \E t \in Tasks : UpsertHistory(t)
    \/ \E t \in Tasks : MergeLookup(t)
    \/ \E t \in Tasks : MergeWrite(t)
    \/ \E t \in Tasks : MergeHistory(t)

Spec == Init /\ [][Next]_vars

\* ---------------------------------- the specification of upserts by account

\* Upserts of two owners, with two names and two account types.
AccountUsers == {"u1", "u2"}
AccountTypes == {"checking", "savings"}
AccountNames == { <<"A">>, <<"b">> }

AccountUpsertArgs ==
    { [op |-> "upsert", kind |-> k, userId |-> u, type |-> ty, name |-> n,
       newName |-> <<>>, value |-> 10, effectiveDate |-> 1,
       source |-> "user_input", isActive |-> TRUE] :
        k \in Kinds, u \in AccountUsers, ty \in AccountTypes, n \in AccountNames }

\* upsertAsset / upsertDebt are called.
CallAccountUpsert == \E c \in AccountUpsertArgs : Call(c)

InitAccounts ==
    /\ InitTasks
    /\ InitNoGoals
    /\ InitNoJobs
    /\ InitNoCurate
    /\ InitNoHistoryCall
    /\ InitEmpty

NextAccounts ==
    \/ CallAccountUpsert
    \/ \E t \in Tasks : UpsertLookup(t)
    \/ \E t \in Tasks : UpsertWrite(t)
    \/ \E t \in Tasks : UpsertHistory(t)

SpecAccounts == InitAccounts /\ [][NextAccounts]_vars

\* ------------------------------------------ the specification of the queues

\* Merges of "A" and of "b" (absent at first: that merge throws) into "b", and
\* upserts of the two names.
QueueCalls ==
    {c \in MergeArgs : c.newName = <<"b">> /\ c.effectiveDate = 2}
    \cup {c \in UpsertArgs : c.name \in MergeNames /\ c.value = 10 /\ c.effectiveDate = 1}

CallQueued == \E c \in QueueCalls : Call(c)

NextQueue ==
    \/ CallQueued
    \/ \E t \in Tasks : UpsertLookup(t)
    \/ \E t \in Tasks : UpsertWrite(t)
    \/ \E t \in Tasks : UpsertHistory(t)
    \/ \E t \in Tasks : MergeLookup(t)
    \/ \E t \in Tasks : MergeWrite(t)
    \/ \E t \in Tasks : MergeHistory(t)

\* The event loop runs every continuation that is ready: a call whose awaited
\* promise has settled goes on.
FairQueue ==
    \A t \in Tasks :
        /\ WF_vars(UpsertLookup(t))
        /\ WF_vars(UpsertWrite(t))
        /\ WF_vars(UpsertHistory(t))
        /\ WF_vars(MergeLookup(t))
        /\ WF_vars(MergeWrite(t))
        /\ WF_vars(MergeHistory(t))

SpecQueue == Init /\ [][NextQueue]_vars /\ FairQueue

\* --------------------------------------------- the goal-creation specification

\* The createGoal call that may have completed before.
SeedGoalCalls ==
    {c \in CreateGoalArgs :
        c.userId = "u1" /\ c.title = <<"B", "a", "a", "b">> /\ Len(c.steps) = 1}

InitGoalSeeded(c) ==
    /\ goals = <<[userId |-> c.userId, title |-> c.title, status |-> "active"]>>
    /\ goalSteps = NewSteps(1, c.steps)
    /\ goalResources = NewResources(1, Len(c.steps), c.resources)
    /\ call = [t \in Tasks |-> IF t = SeedTask THEN c ELSE NoCall]
    /\ pc = [t \in Tasks |-> IF t = SeedTask THEN "done" ELSE "idle"]
    /\ result = [t \in Tasks |-> IF t = SeedTask THEN 1 ELSE NoRow]

InitGoal ==
    /\ InitTasks
    /\ InitNoAccounts
    /\ InitNoJobs
    /\ InitNoCurate
    /\ InitNoHistoryCall
    /\ \/ InitNoGoals /\ call = [t \in Tasks |-> NoCall]
                      /\ pc = [t \in Tasks |-> "idle"]
                      /\ result = [t \in Tasks |-> NoRow]
       \/ \E c \in SeedGoalCalls : InitGoalSeeded(c)

NextGoal ==
    \/ CallCreateGoal
    \/ \E t \in Tasks : CreateGoalLookup(t)
    \/ \E t \in Tasks : CreateGoalCommit(t)
    \/ \E t \in Tasks : CreateGoalRollback(t)

SpecGoal == InitGoal /\ [][NextGoal]_vars

\* ------------------------------- the createGoal and updateGoal specification

\* createGoal calls with two titles that are not similar.
GoalCalls == {c \in CreateGoalArgs : c.title \in {<<"B", "a", "a", "b">>, <<"a", "a", "a", "a">>}}

CallCreateGoalOf == \E c \in GoalCalls : Call(c)

NextGoals ==
    \/ CallCreateGoalOf
    \/ \E t \in Tasks : CreateGoalLookup(t)
    \/ \E t \in Tasks : CreateGoalCommit(t)
    \/ \E t \in Tasks : CreateGoalRollback(t)
    \/ CallUpdateGoal
    \/ \E t \in Tasks : UpdateGoalLookup(t)
    \/ \E t \in Tasks : UpdateGoalSet(t)
    \/ \E t \in Tasks : UpdateGoalCount(t)
    \/ \E t \in Tasks : UpdateGoalCommit(t)
    \/ \E t \in Tasks : UpdateGoalRollback(t)

SpecGoals == InitGoal /\ [][NextGoals]_vars

\* ------------------------------------ the specification of the create_goal tool

\* create_goal calls of one user: a title, the same title written differently,
\* and another title, with one step.
ToolCalls ==
    {c \in CreateGoalArgs :
        /\ c.userId = "u1"
        /\ c.title \in {<<"B", "a", "a", "b">>, <<" ", "b", "a", "a", "b">>, <<"a", "a", "a", "a">>}
        /\ Len(c.steps) = 1}

CallCreateGoalTool == \E c \in ToolCalls : Call(c)

NextTool ==
    \/ CallCreateGoalTool
    \/ \E t \in Tasks : CreateGoalLookup(t)
    \/ \E t \in Tasks : CreateGoalCommit(t)
    \/ \E t \in Tasks : CreateGoalRollback(t)
    \/ \E t \in Tasks : CreateGoalToolCurates(t)
    \/ \E j \in Jobs : JobSelectSteps(j)
    \/ \E j \in Jobs : JobSelectFails(j)
    \/ \E j \in Jobs : ExtractIntent(j)
    \/ \E j \in Jobs : ExtractIntentFails(j)
    \/ \E j \in Jobs : SaveIntent(j)
    \/ \E j \in Jobs : SaveIntentFails(j)
    \/ \E j \in Jobs : Search(j)
    \/ \E j \in Jobs : SearchFails(j)
    \/ \E j \in Jobs : Curate(j)
    \/ \E j \in Jobs : DeleteResources(j)
    \/ \E j \in Jobs : DeleteResourcesFails(j)
    \/ \E j \in Jobs : InsertResources(j)
    \/ \E j \in Jobs : InsertResourcesFails(j)
    \/ \E j \in Jobs : Delay(j)

SpecTool == InitGoal /\ [][NextTool]_vars

\* ------------------------------------ the merge and updateGoal specification

\* One account and one goal exist.
InitUpdate ==
    /\ InitTasks
    /\ InitNoJobs
    /\ InitNoCurate
    /\ InitNoHistoryCall
    /\ \E c \in SeedCalls, g \in SeedGoalCalls :
        /\ accounts = [k \in Kinds |-> IF k = c.kind THEN <<UpsertInserted(c)>> ELSE <<>>]
        /\ history = [k \in Kinds |-> IF k = c.kind THEN <<HistoryRow(1, c, c.source)>> ELSE <<>>]
        /\ InitGoalSeeded(g)

NextUpdate ==
    \/ CallMerge
    \/ \E t \in Tasks : MergeLookup(t)
    \/ \E t \in Tasks : MergeWrite(t)
    \/ \E t \in Tasks : MergeHistory(t)
    \/ CallUpdateGoal
    \/ \E t \in Tasks : UpdateGoalLookup(t)
    \/ \E t \in Tasks : UpdateGoalSet(t)
    \/ \E t \in Tasks : UpdateGoalCount(t)
    \/ \E t \in Tasks : UpdateGoalCommit(t)
    \/ \E t \in Tasks : UpdateGoalRollback(t)

SpecUpdate == InitUpdate /\ [][NextUpdate]_vars

\* ---------------------------------- the specification of getFinancialHistory

InitHistory ==
    /\ InitTasks
    /\ InitNoCalls
    /\ InitNoGoals
    /\ InitNoJobs
    /\ InitNoCurate
    /\ tz \in TimeZones
    /\ timeSeries = NoSeries
    /\ \E ha \in HistoryTables("asset", MaxHistory), hd \in HistoryTables("debt", 1) :
          /\ history = [asset |-> ha, debt |-> hd]
          /\ accounts =
                [k \in HistoryKinds |->
                    [id \in 1..Len(HistoryOwners[k]) |->
                        MainRecord(k, id, IF k = "asset" THEN ha ELSE hd)]]

NextHistory == GetFinancialHistory

SpecHistory == InitHistory /\ [][NextHistory]_vars

\* ------------------------------------------- the curation specification

\* The goals created before the behaviour starts: one of u1 with two steps and a
\* resource given with the call, one of u2 with one step.
TwoSteps == CHOOSE d \in GoalData : Len(d.steps) = 2
OneStep == CHOOSE d \in GoalData : Len(d.steps) = 1

InitCurationGoals ==
    /\ goals = <<[userId |-> "u1", title |-> <<"B", "a", "a", "b">>, status |-> "active"],
                 [userId |-> "u2", title |-> <<"a", "a", "a", "a">>, status |-> "active"]>>
    /\ goalSteps = NewSteps(1, TwoSteps.steps) \o NewSteps(2, OneStep.steps)
    /\ goalResources = NewResources(1, 2, TwoSteps.resources)

InitCuration ==
    /\ InitTasks
    /\ InitNoCalls
    /\ InitNoAccounts
    /\ InitCurationGoals
    /\ InitNoJobs
    /\ InitNoCurate
    /\ InitNoHistoryCall

NextCuration ==
    \/ CallCurateResourcesForGoal
    \/ \E j \in Jobs : JobSelectSteps(j)
    \/ \E j \in Jobs : JobSelectFails(j)
    \/ \E j \in Jobs : ExtractIntent(j)
    \/ \E j \in Jobs : ExtractIntentFails(j)
    \/ \E j \in Jobs : SaveIntent(j)
    \/ \E j \in Jobs : SaveIntentFails(j)
    \/ \E j \in Jobs : Search(j)
    \/ \E j \in Jobs : SearchFails(j)
    \/ \E j \in Jobs : Curate(j)
    \/ \E j \in Jobs : DeleteResources(j)
    \/ \E j \in Jobs : DeleteResourcesFails(j)
    \/ \E j \in Jobs : InsertResources(j)
    \/ \E j \in Jobs : InsertResourcesFails(j)
    \/ \E j \in Jobs : Delay(j)

SpecCuration == InitCuration /\ [][NextCuration]_vars

\* ------------------------------------- the specification of curateResources

InitCurate ==
    /\ InitTasks
    /\ InitNoCalls
    /\ InitNoAccounts
    /\ InitNoGoals
    /\ InitNoJobs
    /\ InitNoHistoryCall
    /\ curateArgs \in CurateInputs
    /\ curateResult = NoResult

NextCurate ==
    \/ CurateResourcesReturns
    \/ CurateResourcesThrows

SpecCurate == InitCurate /\ [][NextCurate]_vars

\* ------------------------------------------------------------- properties

\* The identity of an account: (ownerId, lowercased-trimmed name, type).
AccountKey(row) == <<row.userId, toLowerCase(trim(row.name)), row.type>>

\* The identity of the account a call names (a merge: by its old name).
CallAccount(c) == <<c.kind, c.userId, toLowerCase(trim(c.name)), c.type>>

HistoryOf(k, id) == {i \in 1..Len(history[k]) : history[k][i].id = id}

Free == 1..MaxTasks

\* C1: in every reachable state there is at most one asset (debt) record per
\* (ownerId, lowercased-trimmed name, type), also after a merge that renames a
\* record to a name another record already has, and after a merge(old -> new)
\* concurrent with an upsert of the new name.
C1_OneRecordPerAccount ==
    \A k \in Kinds : \A i, j \in 1..Len(accounts[k]) :
        AccountKey(accounts[k][i]) = AccountKey(accounts[k][j]) => i = j

\* C2: when the only two calls issued on an empty ledger are upserts of the same
\* (owner, name, type) with different effective dates, then once both have
\* completed - in either arrival order and under every interleaving - there is
\* exactly one main record of the account, it carries the value and the date of
\* the later-dated upsert, and the account has exactly two history rows.
C2_ConcurrentUpserts ==
    \A t1, t2 \in Free :
        ( /\ pc[SeedTask] = "idle"
          /\ ntasks = 2
          /\ pc[t1] = "done" /\ pc[t2] = "done"
          /\ call[t1].op = "upsert" /\ call[t2].op = "upsert"
          /\ CallAccount(call[t1]) = CallAccount(call[t2])
          /\ call[t1].effectiveDate < call[t2].effectiveDate )
        => LET c == call[t2]
               ids == MatchIds(c.kind, c.userId, c.name, c.type)
           IN /\ Cardinality(ids) = 1
              /\ Len(accounts[c.kind]) = 1
              /\ \A i \in ids :
                    /\ accounts[c.kind][i].value = c.value
                    /\ accounts[c.kind][i].effectiveDate = c.effectiveDate
                    /\ Cardinality(HistoryOf(c.kind, i)) = 2
              /\ Len(history[c.kind]) = 2

\* C2 witness: the later-dated upsert arrived first and was still in flight when
\* the earlier-dated one arrived (which chained on it); both have completed.
C2_Witness ==
    /\ pc[SeedTask] = "idle"
    /\ ntasks = 2
    /\ pc[1] = "done" /\ pc[2] = "done"
    /\ call[1].op = "upsert" /\ call[2].op = "upsert"
    /\ CallAccount(call[1]) = CallAccount(call[2])
    /\ call[1].name # call[2].name
    /\ call[1].effectiveDate > call[2].effectiveDate
    /\ prev[2] = 1

\* C3: the step of an upsert that found a record leaves that record with the
\* incoming value, effectiveDate, source and isActive when the incoming date is
\* >= the record's date at that moment, and leaves it exactly as it was otherwise.
C3_UpsertStep ==
    \A t \in Tasks :
        ( /\ pc[t] = "looked" /\ pc'[t] = "wrote"
          /\ call[t].op = "upsert"
          /\ existing[t].id # NoRow )
        => LET c == call[t]
               before == accounts[c.kind][existing[t].id]
               after == accounts'[c.kind][existing[t].id]
           IN IF c.effectiveDate >= before.effectiveDate
              THEN after = [before EXCEPT !.value = c.value,
                                          !.effectiveDate = c.effectiveDate,
                                          !.source = c.source,
                                          !.isActive = c.isActive]
              ELSE after = before

C3_DateGatedUpdate == [][C3_UpsertStep]_vars

\* C3 witness: a backfill: an upsert older than the record it found has taken its
\* step, and the record still has the later date and a value other than the call's.
C3_Witness ==
    \E t \in Free :
        /\ pc[t] = "wrote"
        /\ call[t].op = "upsert"
        /\ existing[t].id # NoRow
        /\ call[t].effectiveDate < existing[t].effectiveDate
        /\ accounts[call[t].kind][existing[t].id].effectiveDate = existing[t].effectiveDate
        /\ accounts[call[t].kind][existing[t].id].value # call[t].value

\* C4: the history rows of a record are as many as the completed upsert/merge
\* calls that returned it; every step keeps the rows already written, unchanged
\* and in place; and the step that completes an upsert appends exactly one row
\* with the call's value, effectiveDate and source.
C4_Count ==
    \A k \in Kinds : \A id \in 1..Len(accounts[k]) :
        Cardinality(HistoryOf(k, id)) =
            Cardinality({t \in Tasks : pc[t] = "done" /\ call[t].kind = k /\ result[t] = id})

C4_Step ==
    /\ \A k \in Kinds :
        /\ Len(history'[k]) >= Len(history[k])
        /\ SubSeq(history'[k], 1, Len(history[k])) = history[k]
    /\ \A t \in Tasks :
        (pc[t] # "done" /\ pc'[t] = "done" /\ call[t].op = "upsert")
        => history'[call[t].kind] =
              Append(history[call[t].kind],
                     [id |-> result[t], value |-> call[t].value,
                      effectiveDate |-> call[t].effectiveDate, source |-> call[t].source])

C4_HistoryAppendOnly == [][C4_Step]_vars /\ []C4_Count

\* C4 witness: an upsert that did not change the main record (a backfill) has
\* completed, and the table holds two identical history rows.
C4_Witness ==
    /\ \E k \in Kinds : \E i, j \in 1..Len(history[k]) : i < j /\ history[k][i] = history[k][j]
    /\ \E t \in Free :
        /\ pc[t] = "done"
        /\ call[t].op = "upsert"
        /\ existing[t].id # NoRow
        /\ call[t].effectiveDate < existing[t].effectiveDate

\* The key of the claim: (kind, owner, normalized name).
C5_Key(c) == <<c.kind, c.userId, toLowerCase(trim(c.name))>>

\* C5: of two calls on the same (kind, owner, normalized name), the one that
\* arrived later has not started its lookup before the earlier one has settled.
C5_FifoPerKey ==
    \A t1, t2 \in Tasks :
        ( /\ t1 < t2
          /\ pc[t1] # "idle" /\ pc[t2] # "idle"
          /\ C5_Key(call[t1]) = C5_Key(call[t2])
          /\ pc[t2] # "queued" )
        => Settled(t1)

\* C5 witness: a merge and an upsert that spell the same account differently; the
\* later one arrived while the earlier was in flight, waited, and has now looked up.
C5_Witness ==
    \E t1, t2 \in Free :
        /\ t1 < t2
        /\ pc[t1] = "done"
        /\ pc[t2] = "looked"
        /\ prev[t2] = t1
        /\ C5_Key(call[t1]) = C5_Key(call[t2])
        /\ call[t1].name # call[t2].name
        /\ call[t1].op # call[t2].op

\* C6: no two goals of one owner have titles whose normalized edit-distance
\* similarity is at or above 0.7, in every state reachable by createGoal calls
\* in any interleaving.
C6_NoSimilarGoals ==
    \A i, j \in 1..Len(goals) :
        (i # j /\ goals[i].userId = goals[j].userId)
        => ~SimilarTitles[goals[i].title][goals[j].title]

\* C6 witness: two createGoal calls of one owner with similar, differently
\* written titles; the second arrived while the first was in flight; both have
\* returned the same goal, the second as a duplicate.
C6_Witness ==
    /\ pc[1] = "done" /\ pc[2] = "done"
    /\ prev[2] = 1
    /\ call[1].userId = call[2].userId
    /\ call[1].title # call[2].title
    /\ ~deduplicated[1] /\ deduplicated[2]
    /\ result[1] = result[2]

\* The goals of the call's owner whose title is similar to the call's title.
C7_Similar(c) ==
    {g \in 1..Len(goals) : goals[g].userId = c.userId /\ SimilarTitles[c.title][goals[g].title]}

\* C7: the lookup step of a createGoal that finds a goal of the owner with a
\* similar title returns the id of such a goal with deduplicated = true and
\* leaves the goal, step and resource tables unchanged; otherwise the call goes
\* on, and when it returns it returns an id no goal had, with deduplicated = false.
C7_Step ==
    \A t \in Tasks :
        /\ (pc[t] = "queued" /\ pc'[t] # "queued" /\ call[t].op = "createGoal")
            => IF C7_Similar(call[t]) # {}
               THEN /\ pc'[t] = "done"
                    /\ result'[t] \in C7_Similar(call[t])
                    /\ deduplicated'[t]
                    /\ UNCHANGED goalVars
               ELSE pc'[t] = "looked"
        /\ (pc[t] = "looked" /\ pc'[t] = "done" /\ call[t].op = "createGoal")
            => /\ C7_Similar(call[t]) = {}
               /\ result'[t] \notin 1..Len(goals)
               /\ result'[t] \in 1..Len(goals')
               /\ ~deduplicated'[t]

C7_DedupWritesNothing == [][C7_Step]_vars

\* C7 witness: a createGoal has returned an existing goal whose title is written
\* differently, as a duplicate, and another one has created a second goal.
C7_Witness ==
    \E t1, t2 \in Free :
        /\ pc[t1] = "done" /\ pc[t2] = "done"
        /\ deduplicated[t1]
        /\ goals[result[t1]].title # call[t1].title
        /\ ~deduplicated[t2]
        /\ call[t2].userId = call[t1].userId
        /\ Len(goals) = 2

\* The positions in which a job is inside its pipeline.
C8_Running == Stages \cup {"delay"}

\* C8: curation jobs run one at a time in the order they were enqueued: a job
\* that was enqueued later has not started reading its steps before every job
\* enqueued earlier has finished (returned or failed), and at most one job is
\* inside the pipeline.
C8_GlobalFifo ==
    /\ \A j1, j2 \in Jobs :
          (j1 < j2 /\ jobs[j2].pc \notin {"idle", "waiting"})
          => jobs[j1].pc \in {"done", "failed"}
    /\ Cardinality({j \in Jobs : jobs[j].pc \in C8_Running}) <= 1

\* C8 witness: a job for another goal was enqueued while the first job was
\* still unfinished; the first job failed, and the second is now in its pipeline.
C8_Witness ==
    \E j1, j2 \in Jobs :
        /\ j1 < j2
        /\ jobs[j1].pc = "failed"
        /\ jobs[j2].pending
        /\ jobs[j2].prev = j1
        /\ jobs[j2].goalId # jobs[j1].goalId
        /\ jobs[j2].pc \in Stages

\* The stages a job has entered in its current step.
C9_Entered(r) == {r.log[k] : k \in 1..Len(r.log)}

\* C9: a step of a job that is inside curateResourcesForStep either enters a
\* stage it has not entered before in this step, or returns a result to the
\* loop (an error result with resourceCount 0 when the stage failed), keeping
\* the job's step list and position: it never ends the job. After the delay the
\* loop takes the next step of the list, and returns normally after the last
\* one. A job fails only when the select of its steps fails.
C9_Step ==
    \A j \in Jobs :
        LET a == jobs[j]
            b == jobs'[j]
        IN /\ (a.pc \in Stages /\ b # a)
                => /\ b.pc \in Stages \cup {"delay"}
                   /\ b.steps = a.steps /\ b.i = a.i
                   /\ b.pc \in Stages => b.pc \notin C9_Entered(a) /\ b.ret = NoRet
                   /\ b.pc = "delay"
                        => /\ b.ret # NoRet
                           /\ ~b.ret.success => b.ret.resourceCount = 0 /\ b.ret.error # "none"
           /\ (a.pc = "delay" /\ b # a)
                => IF a.i < Len(a.steps)
                   THEN b.pc = "intent" /\ b.i = a.i + 1 /\ b.steps = a.steps
                   ELSE b.pc = "done"
           /\ (a.pc # "failed" /\ b.pc = "failed") => a.pc = "waiting"

\* Every step of a job that returned was attempted.
C9_AllAttempted == \A j \in Jobs : jobs[j].pc = "done" => jobs[j].i = Len(jobs[j].steps)

C9_FailureConfined == [][C9_Step]_vars /\ []C9_AllAttempted

\* C9 witness: in the only job so far, the first step failed before the step
\* row got its intent, and the second and last step has returned success.
C9_Witness ==
    /\ njobs = 1
    /\ jobs[1].pc = "delay"
    /\ Len(jobs[1].steps) = 2
    /\ jobs[1].i = 2
    /\ ~goalSteps[jobs[1].steps[1]].intentExtracted
    /\ jobs[1].ret.success
    /\ jobs[1].ret.resourceCount > 0

\* The URLs of the candidates.
C10_CandidateUrls == {curateArgs.candidates[k] : k \in 1..Len(curateArgs.candidates)}

\* C10: whenever curateResources returns, the resources are exactly the
\* response's resources whose URL is the URL of a candidate, in their order,
\* and insufficientSources is true when fewer than 5 of them are left.
C10_Guardrails ==
    curateResult.kind = "returned"
    => /\ curateResult.resources =
            SelectSeq(curateArgs.response.resources, LAMBDA r : r.url \in C10_CandidateUrls)
       /\ Len(curateResult.resources) < 5 => curateResult.insufficientSources = TRUE

\* C10 witness: a response of six resources that reported insufficientSources
\* false, with a URL no candidate has and one that differs in case only: four
\* are returned, and insufficientSources is true.
C10_Witness ==
    /\ curateResult.kind = "returned"
    /\ curateArgs.response.insufficientSources = "false"
    /\ Len(curateArgs.response.resources) = 6
    /\ \E k \in 1..6 : curateArgs.response.resources[k].url = "R1"
    /\ \E k \in 1..6 : curateArgs.response.resources[k].url = "x9"
    /\ Len(curateResult.resources) = 4
    /\ curateResult.insufficientSources

\* The URLs of the Resource rows of a step, in table order.
C11_RowUrls(table, stepId) ==
    LET rows == SelectSeq(table, LAMBDA row : row.stepId = stepId)
    IN [k \in 1..Len(rows) |-> rows[k].url]

\* C11: when a step's curation run returns success, the Resource rows of the
\* step are exactly the resources its curation stage returned, in order (no row
\* of an earlier run is left, nothing is merged), and resourceCount is their
\* number; so the final rows are a function of the curation stage's output only.
C11_Step ==
    \A j \in Jobs :
        LET a == jobs[j]
            b == jobs'[j]
        IN (a.pc \in Stages /\ b.pc = "delay" /\ b.ret.success)
            => /\ C11_RowUrls(goalResources', a.steps[a.i]) =
                    [k \in 1..Len(a.resources) |-> a.resources[k].url]
               /\ b.ret.resourceCount = Len(a.resources)
               /\ \A s \in 1..Len(goalSteps) :
                     s # a.steps[a.i] => C11_RowUrls(goalResources', s) = C11_RowUrls(goalResources, s)

C11_ReplaceOnSuccess == [][C11_Step]_vars

\* C11 witness: step 2, which had the resource r0 given when the goal was
\* created, has been curated successfully and now has exactly the one resource
\* the curation stage returned.
C11_Witness ==
    \E j \in Jobs :
        /\ jobs[j].pc = "delay"
        /\ jobs[j].ret.success
        /\ jobs[j].steps[jobs[j].i] = 2
        /\ Len(jobs[j].resources) = 1
        /\ C11_RowUrls(goalResources, 2) = <<"r1">>

\* C12: the write step of a merge that found a record changes that record only,
\* in place (same id): the name becomes the trimmed new name when the new name
\* differs from the old one case-insensitively, and stays otherwise; value and
\* effectiveDate become the call's when the call's date is >= the record's date
\* at that moment, and stay otherwise. The step that completes the merge appends
\* exactly one history row under that id and keeps every earlier row.
C12_Step ==
    \A t \in Tasks :
        /\ (pc[t] = "looked" /\ pc'[t] = "wrote" /\ call[t].op = "merge")
            => LET c == call[t]
                   id == existing[t].id
                   before == accounts[c.kind][id]
                   after == accounts'[c.kind][id]
                   named == IF toLowerCase(trim(c.newName)) # toLowerCase(trim(c.name))
                            THEN [before EXCEPT !.name = trim(c.newName)]
                            ELSE before
               IN /\ result'[t] = id
                  /\ Len(accounts'[c.kind]) = Len(accounts[c.kind])
                  /\ \A i \in 1..Len(accounts[c.kind]) :
                        i # id => accounts'[c.kind][i] = accounts[c.kind][i]
                  /\ after = IF c.effectiveDate >= before.effectiveDate
                             THEN [named EXCEPT !.value = c.value,
                                                !.effectiveDate = c.effectiveDate]
                             ELSE named
                  /\ history' = history
        /\ (pc[t] = "wrote" /\ pc'[t] = "done" /\ call[t].op = "merge")
            => LET c == call[t]
               IN /\ history'[c.kind] =
                        Append(history[c.kind],
                               [id |-> existing[t].id, value |-> c.value,
                                effectiveDate |-> c.effectiveDate, source |-> "user_input"])
                  /\ accounts' = accounts

C12_MergeKeepsId == [][C12_Step]_vars

\* C12 witness: a merge older than the record has completed: the record has the
\* new name, still its later date, and two history rows under its id, the one
\* written before the rename and the merge's.
C12_Witness ==
    \E t \in Free :
        /\ pc[t] = "done"
        /\ call[t].op = "merge"
        /\ call[t].name = <<"A">> /\ call[t].newName = <<"b">>
        /\ call[t].effectiveDate < existing[t].effectiveDate
        /\ accounts[call[t].kind][result[t]].name = <<"b">>
        /\ accounts[call[t].kind][result[t]].effectiveDate = existing[t].effectiveDate
        /\ Cardinality(HistoryOf(call[t].kind, result[t])) = 2

\* The ledger after running call c alone, start to end, on ledger led.
C13_Run(led, c) ==
    LET rows == led.accounts[c.kind]
        ids == {i \in 1..Len(rows) :
                  /\ rows[i].userId = c.userId
                  /\ rows[i].type = c.type
                  /\ toLowerCase(rows[i].name) = toLowerCase(trim(c.name))}
        id == IF ids = {} THEN Len(rows) + 1 ELSE CHOOSE i \in ids : TRUE
        newer == IF ids = {} THEN TRUE ELSE c.effectiveDate >= rows[id].effectiveDate
        row == IF c.op = "upsert"
               THEN IF newer
                    THEN [userId |-> c.userId, type |-> c.type,
                          name |-> IF ids = {} THEN trim(c.name) ELSE rows[id].name,
                          value |-> c.value, effectiveDate |-> c.effectiveDate,
                          source |-> c.source, isActive |-> c.isActive]
                    ELSE rows[id]
               ELSE [rows[id] EXCEPT
                        !.name = IF toLowerCase(trim(c.newName)) # toLowerCase(trim(c.name))
                                 THEN trim(c.newName) ELSE @,
                        !.value = IF newer THEN c.value ELSE @,
                        !.effectiveDate = IF newer THEN c.effectiveDate ELSE @]
        hrow == [id |-> id, value |-> c.value, effectiveDate |-> c.effectiveDate,
                 source |-> c.source]
    IN IF c.op = "merge" /\ ids = {} THEN led
       ELSE [accounts |-> [led.accounts EXCEPT ![c.kind] =
                              IF ids = {} THEN Append(@, row) ELSE [@ EXCEPT ![id] = row]],
             history |-> [led.history EXCEPT ![c.kind] = Append(@, hrow)]]

C13_Empty == [accounts |-> [k \in Kinds |-> <<>>], history |-> [k \in Kinds |-> <<>>]]

\* The ledger before the two calls: empty, or what the earlier upsert left.
C13_Start == IF pc[SeedTask] = "done" THEN C13_Run(C13_Empty, call[SeedTask]) ELSE C13_Empty

\* The two calls issued are a merge and an upsert of the merge's old name.
C13_Pair ==
    /\ ntasks = 2
    /\ {call[1].op, call[2].op} = {"merge", "upsert"}
    /\ call[1].kind = call[2].kind /\ call[1].userId = call[2].userId
    /\ toLowerCase(trim(call[1].name)) = toLowerCase(trim(call[2].name))

\* C13: when the calls issued are a merge(old -> new) and an upsert of old by
\* one owner, in either arrival order, the second to arrive does not start
\* before the first has settled, and once both have settled the ledger is the
\* one obtained by running the first to the end and then the second.
C13_MergeUpsertSerial ==
    C13_Pair
    => /\ pc[2] # "queued" => Settled(1)
       /\ (Settled(1) /\ Settled(2))
            => [accounts |-> accounts, history |-> history]
                 = C13_Run(C13_Run(C13_Start, call[1]), call[2])

\* C13 witness: the upsert of "A" arrived while the merge of "A" into "b" was
\* in flight and waited for it; the merge renamed the record and the upsert
\* then inserted a new record "A".
C13_Witness ==
    /\ C13_Pair
    /\ pc[SeedTask] = "done"
    /\ call[1].op = "merge" /\ call[1].newName = <<"b">>
    /\ prev[2] = 1
    /\ pc[1] = "done" /\ pc[2] = "done"
    /\ result[1] = 1 /\ result[2] = 2
    /\ Len(accounts[call[1].kind]) = 2

\* C16: when only upserts have been issued, two completed upserts of one owner
\* and type whose names are equal after trimming and lower-casing returned the
\* same record id, and that account has exactly one main record.
C16_NameInsensitive ==
    (\A t \in Tasks : call[t].op \in {"none", "upsert"})
    => \A t1, t2 \in Tasks :
          ( /\ t1 < t2
            /\ pc[t1] = "done" /\ pc[t2] = "done"
            /\ call[t1].kind = call[t2].kind
            /\ call[t1].userId = call[t2].userId
            /\ call[t1].type = call[t2].type
            /\ toLowerCase(trim(call[t1].name)) = toLowerCase(trim(call[t2].name)) )
          => /\ result[t1] = result[t2]
             /\ Cardinality({i \in 1..Len(accounts[call[t1].kind]) :
                               AccountKey(accounts[call[t1].kind][i])
                                 = AccountKey(accounts[call[t1].kind][result[t1]])}) = 1

\* C16 witness: "A" was upserted, and then " a" (other case, leading blank) with
\* another value and a later date: the second call returned the first one's
\* record, which is the only one and now carries the second call's value.
C16_Witness ==
    /\ pc[SeedTask] = "done" /\ pc[1] = "done"
    /\ call[1].op = "upsert"
    /\ call[SeedTask].name = <<"A">> /\ call[1].name = <<" ", "a">>
    /\ call[1].effectiveDate > call[SeedTask].effectiveDate
    /\ call[1].value # call[SeedTask].value
    /\ result[SeedTask] = 1 /\ result[1] = 1
    /\ Len(accounts[call[1].kind]) = 1
    /\ accounts[call[1].kind][1].value = call[1].value
    /\ accounts[call[1].kind][1].name = <<"A">>

\* The main records the merge names: of its owner and type, with its old name.
C14_Named(c) ==
    {i \in 1..Len(accounts[c.kind]) :
        /\ accounts[c.kind][i].userId = c.userId
        /\ accounts[c.kind][i].type = c.type
        /\ toLowerCase(accounts[c.kind][i].name) = toLowerCase(trim(c.name))}

\* The goal exists and belongs to the caller.
C14_Owns(c) == \E g \in 1..Len(goals) : g = c.goalId /\ goals[g].userId = c.userId

\* C14: the lookup of a merge that names no record of (owner, old name, type),
\* and the lookup of an updateGoal whose goal does not exist or is not the
\* caller's, end the call with an error and change no table; a call that has
\* failed takes no further step, so it renames and writes nothing.
C14_Step ==
    \A t \in Tasks :
        /\ (call[t].op = "merge" /\ pc[t] = "queued" /\ pc'[t] # "queued")
            => IF C14_Named(call[t]) = {}
               THEN pc'[t] = "failed" /\ UNCHANGED <<accounts, history, goalVars>>
               ELSE pc'[t] = "looked"
        /\ (call[t].op = "updateGoal" /\ pc[t] = "called" /\ pc'[t] # "called")
            => IF ~C14_Owns(call[t])
               THEN pc'[t] = "failed" /\ UNCHANGED <<accounts, history, goalVars>>
               ELSE pc'[t] = "owned"
        /\ pc[t] = "failed" => pc'[t] = "failed"

C14_NotFoundFails == [][C14_Step]_vars

\* C14 witness: a merge of a name no record has and an updateGoal with new
\* steps by a user who does not own the goal have both failed, and the tables
\* hold the one record, the one history row and the one step they held before.
C14_Witness ==
    \E t1, t2 \in Free :
        /\ pc[t1] = "failed" /\ pc[t2] = "failed"
        /\ call[t1].op = "merge" /\ call[t1].name = <<"b">>
        /\ call[t2].op = "updateGoal" /\ call[t2].goalId = 1 /\ call[t2].userId = "u2"
        /\ Len(call[t2].newSteps) = 2
        /\ Len(accounts["asset"]) = 1 /\ accounts["asset"][1].name = <<"A">>
        /\ Len(history["asset"]) = 1
        /\ Len(goalSteps) = 1

\* C18: the commit of an updateGoal with newSteps appends one step row per
\* entry, in the given order, numbered count+1, count+2, ... where count is the
\* number of steps the goal has, each not completed; every row the step table
\* held stays as it was, in place.
C18_Step ==
    \A t \in Tasks :
        (call[t].op = "updateGoal" /\ pc[t] # "done" /\ pc'[t] = "done")
        => LET c == call[t]
               count == Cardinality({s \in 1..Len(goalSteps) : goalSteps[s].goalId = c.goalId})
               n == Len(c.newSteps)
           IN /\ Len(goalSteps') = Len(goalSteps) + n
              /\ SubSeq(goalSteps', 1, Len(goalSteps)) = goalSteps
              /\ \A i \in 1..n :
                    LET row == goalSteps'[Len(goalSteps) + i]
                    IN /\ row.goalId = c.goalId
                       /\ row.description = c.newSteps[i]
                       /\ row.order = count + i
                       /\ ~row.isCompleted

C18_AppendSteps == [][C18_Step]_vars

\* C18 witness: two updateGoal calls have appended steps to the goal that had
\* one step: the second one's two steps have the numbers 3 and 4.
C18_Witness ==
    /\ pc[1] = "done" /\ pc[2] = "done"
    /\ call[1].op = "updateGoal" /\ call[2].op = "updateGoal"
    /\ Len(goalSteps) = 4
    /\ goalSteps[1].order = 1
    /\ goalSteps[3].order = 3 /\ goalSteps[3].description = "n1"
    /\ goalSteps[4].order = 4 /\ goalSteps[4].description = "n2"

\* C19: the step that ends a createGoal which found no similar goal either
\* commits the goal row and, right behind the rows the step table held, one row
\* per step, numbered 1..n in the given order, with the step's description and
\* isUserDefined flag, all under the id returned; or it fails and leaves the
\* goal, step and resource tables as they were.
C19_Step ==
    \A t \in Tasks :
        (call[t].op = "createGoal" /\ pc[t] = "looked" /\ pc'[t] # "looked")
        => LET c == call[t]
               n == Len(c.steps)
           IN \/ /\ pc'[t] = "done"
                 /\ ~deduplicated'[t]
                 /\ goals' = Append(goals, [userId |-> c.userId, title |-> c.title,
                                            status |-> "active"])
                 /\ result'[t] = Len(goals')
                 /\ Len(goalSteps') = Len(goalSteps) + n
                 /\ SubSeq(goalSteps', 1, Len(goalSteps)) = goalSteps
                 /\ \A i \in 1..n :
                        LET row == goalSteps'[Len(goalSteps) + i]
                        IN /\ row.goalId = result'[t]
                           /\ row.order = i
                           /\ row.description = c.steps[i].description
                           /\ row.isUserDefined = c.steps[i].isUserDefined
              \/ /\ pc'[t] = "failed"
                 /\ UNCHANGED goalVars

C19_AllOrNothing == [][C19_Step]_vars

\* C19 witness: a createGoal with two steps has failed in its transaction
\* while the tables hold another call's goal and no row of the failed call.
C19_Witness ==
    \E t \in Free :
        /\ pc[t] = "failed"
        /\ call[t].op = "createGoal"
        /\ Len(call[t].steps) = 2
        /\ Len(goals) = 1
        /\ goals[1].title # call[t].title
        /\ \A s \in 1..Len(goalSteps) : goalSteps[s].goalId = 1
        /\ \E t2 \in Tasks : pc[t2] = "done" /\ result[t2] = 1 /\ Len(call[t2].steps) = Len(goalSteps)

\* C17: a step run issues at most one search request, however many query terms
\* its intent spec has; and whenever a job issues a search request, either no
\* search request was issued before, or the inter-step delay has elapsed in
\* full since the last one (of this job or of any other).
C17_OnePerStep == \A j \in Jobs : jobs[j].requests <= 1

C17_Step ==
    \A j \in Jobs :
        jobs'[j].requests > jobs[j].requests
        => sinceSearch \in {NoSearch, INTER_STEP_DELAY_MS}

C17_SearchRate == [][C17_Step]_vars /\ []C17_OnePerStep

\* C17 witness: the first job has returned after a search in its last step, and
\* the second job, for another goal, has just issued its one search request for
\* an intent spec with two query terms.
C17_Witness ==
    /\ jobs[1].pc = "done"
    /\ goalResources # <<[stepId |-> 2, url |-> "r0"]>>
    /\ jobs[2].pc = "search"
    /\ jobs[2].goalId # jobs[1].goalId
    /\ Len(jobs[2].queryTerms) = 2
    /\ jobs[2].requests = 1
    /\ sinceSearch = 0

\* The stages the job has entered in its current step.
C20_Entered(r) == {r.log[k] : k \in 1..Len(r.log)}

\* C20: when the search of a step has returned and no candidate is left after
\* filtering, the step returns the result success = false, resourceCount = 0,
\* error 'No candidates found' to the loop (the job goes on to its delay, it
\* does not fail), and the curation LLM has not been called in that step; the
\* curation LLM is only ever called with candidates.
C20_Step ==
    \A j \in Jobs :
        LET a == jobs[j]
            b == jobs'[j]
        IN (a.pc = "search" /\ b # a /\ "filter" \in C20_Entered(b) /\ b.candidates = <<>>)
            => /\ b.pc = "delay"
               /\ b.ret = [success |-> FALSE, resourceCount |-> 0,
                           error |-> "No candidates found"]
               /\ "curate" \notin C20_Entered(b)

C20_CuratedWithCandidates ==
    \A j \in Jobs : "curate" \in C20_Entered(jobs[j]) => jobs[j].candidates # <<>>

C20_EmptyResult == [][C20_Step]_vars /\ []C20_CuratedWithCandidates

\* C20 witness: a search request was answered, nothing was left after
\* filtering, and the step has returned the failure result; the step's
\* resource row is still there.
C20_Witness ==
    \E j \in Jobs :
        /\ jobs[j].pc = "delay"
        /\ jobs[j].requests = 1
        /\ jobs[j].ret.error = "No candidates found"
        /\ ~jobs[j].ret.success
        /\ jobs[j].steps[jobs[j].i] = 2
        /\ \E k \in 1..Len(goalResources) : goalResources[k] = [stepId |-> 2, url |-> "r0"]

\* The history rows of the accounts of the user, per kind.
C15_Rows(kind) ==
    {k \in 1..Len(history[kind]) : accounts[kind][history[kind][k].id].userId = HistoryUser}

\* The calendar days (UTC) on which the user has a history row.
C15_Days ==
    UNION {{history[kind][k].effectiveDate \div 86400000 : k \in C15_Rows(kind)} :
              kind \in HistoryKinds}

\* The values an account may contribute on a day: the value of a row of the
\* account with the latest effectiveDate among its rows dated on or before that
\* day (of any such row when several carry that time), 0 when it has none.
C15_Latest(kind, id, day) ==
    LET upTo == {k \in C15_Rows(kind) :
                    history[kind][k].id = id /\ history[kind][k].effectiveDate \div 86400000 <= day}
    IN IF upTo = {} THEN {0}
       ELSE {history[kind][k].value :
                k \in {m \in upTo : \A n \in upTo :
                          history[kind][n].effectiveDate <= history[kind][m].effectiveDate}}

RECURSIVE C15_Totals(_, _, _)
C15_Totals(kind, ids, day) ==
    IF ids = {} THEN {0}
    ELSE LET id == CHOOSE i \in ids : TRUE
         IN {v + r : v \in C15_Latest(kind, id, day), r \in C15_Totals(kind, ids \ {id}, day)}

C15_Accounts(kind) == {i \in 1..Len(accounts[kind]) : accounts[kind][i].userId = HistoryUser}

\* C15: what getFinancialHistory returns has exactly one entry per day on which
\* the user has a history row, in ascending order, and in each entry assets
\* (debts) is the sum over the user's asset (debt) accounts of the account's
\* most recent history value dated on or before that day, 0 for an account with
\* none, and netWorth = assets - debts.
C15_HistoryTotals ==
    timeSeries # NoSeries
    => /\ {timeSeries[i].date : i \in 1..Len(timeSeries)} = C15_Days
       /\ \A i, j \in 1..Len(timeSeries) : i < j => timeSeries[i].date < timeSeries[j].date
       /\ \A i \in 1..Len(timeSeries) :
            /\ timeSeries[i].assets \in C15_Totals("asset", C15_Accounts("asset"), timeSeries[i].date)
            /\ timeSeries[i].debts \in C15_Totals("debt", C15_Accounts("debt"), timeSeries[i].date)
            /\ timeSeries[i].netWorth = timeSeries[i].assets - timeSeries[i].debts

\* ---- C21

\* The fields an intent-extraction response must carry.
C21_Fields == {"userJob", "constraints", "resourceTypesNeeded", "queryTerms"}

\* The response parsed for the step a job is on is JSON with every field.
C21_Complete(parsed) == C21_Fields \subseteq DOMAIN parsed

\* Job j leaves intent extraction in this step.
C21_Leaves(j) == jobs[j].pc = "intent" /\ jobs'[j].pc # "intent"

\* C21: an intent-extraction response that is not JSON, or is JSON without one
\* of userJob, constraints, resourceTypesNeeded, queryTerms, is a hard error for
\* the step: the step returns a failure from intent extraction, nothing is
\* written to the step row and no search is issued; so no job is ever past
\* intent extraction with an incomplete response.
C21_Step ==
    \A j \in Jobs :
        /\ C21_Leaves(j) /\ ~C21_Complete(jobs'[j].parsed) =>
              /\ jobs'[j].pc = "delay"
              /\ ~jobs'[j].ret.success
              /\ jobs'[j].ret.error = "intent"
              /\ goalSteps' = goalSteps
              /\ sinceSearch' = sinceSearch
        /\ jobs'[j].pc \in Stages \ {"intent"} => C21_Complete(jobs'[j].parsed)

C21_ContractHardError == [][C21_Step]_vars

\* ---- C22

\* Call t is a close_account call: an upsert with value 0 and isActive false,
\* stamped with the time of the call, which is not before the time of any
\* close_account call issued earlier.
C22_Close(t) ==
    /\ call[t].op = "upsert"
    /\ call[t].value = 0
    /\ ~call[t].isActive
    /\ \A u \in SeedTask..(t - 1) :
          call[u].op = "upsert" /\ ~call[u].isActive
              => call[u].effectiveDate <= call[t].effectiveDate

\* The summary of the user lists record id of the kind.
C22_Listed(summary, kind, id) ==
    id \in (IF kind = "asset" THEN summary.assets ELSE summary.debts)

\* C22: when a close_account call on an existing account completes, the account's
\* record is still there with isActive = false, no history row is gone, and
\* getFinancialSummary does not list the record and counts only the listed ones.
C22_Step ==
    \A t \in Tasks :
        pc[t] = "wrote" /\ pc'[t] = "done" /\ C22_Close(t) /\ existing[t].id # NoRow =>
            LET k == call[t].kind
                id == existing[t].id
                summary == getFinancialSummary(call[t].userId)'
            IN /\ id <= Len(accounts'[k])
               /\ ~accounts'[k][id].isActive
               /\ \A i \in 1..Len(history[k]) :
                     i <= Len(history'[k]) /\ history'[k][i] = history[k][i]
               /\ ~C22_Listed(summary, k, id)

C22_ClosedIsDeactivated == [][C22_Step]_vars

\* ---- C23

\* Upsert t is waiting: the promise it chained on has not settled.
C23_Waiting(t) == pc[t] = "queued" /\ call[t].op = "upsert" /\ ~PrevSettled(t)

\* C23: an upsert never waits for the completion of an upsert on a different
\* account, where accounts differ when they differ in kind, owner, normalized
\* name or type: the call an upsert waits for is on the same account.
C23_ParallelAcrossAccounts ==
    \A t \in 1..ntasks :
        C23_Waiting(t) => CallAccount(call[prev[t]]) = CallAccount(call[t])

\* ---- C24

\* The calls of one run of curateResourcesForStep, in the order of the stages:
\* extraction and its save (INTENT_EXTRACTED), search (SEARCHED), filter
\* (FILTERED), curation and the two statements of the write (CURATED).
C24_Order == <<"intent", "saveIntent", "search", "filter", "curate", "delete", "insert">>

C24_IsPrefix(p, q) == Len(p) <= Len(q) /\ \A k \in 1..Len(p) : p[k] = q[k]

\* Job j is inside a run of curateResourcesForStep, or has just returned from it.
C24_InRun(r) == r.pc \in Stages \cup {"delay"}

\* C24: a step run goes through the stages in order only: the calls made so far
\* are an initial part of the order, each step of the run adds to them, a run
\* that has returned (success or failure) is not resumed or repeated, and the
\* step's resource rows are touched only by a run whose extraction, search,
\* filter and curation have all succeeded.
C24_Step ==
    \A j \in Jobs :
        /\ C24_InRun(jobs'[j]) => C24_IsPrefix(jobs'[j].log, C24_Order)
        /\ jobs'[j].pc \in Stages => jobs'[j].log[Len(jobs'[j].log)] = jobs'[j].pc
        /\ jobs[j].pc \in Stages /\ jobs'[j].pc \in Stages /\ jobs'[j] # jobs[j] =>
              /\ jobs'[j].i = jobs[j].i
              /\ Len(jobs'[j].log) > Len(jobs[j].log)
              /\ C24_IsPrefix(jobs[j].log, jobs'[j].log)
        /\ jobs[j].pc = "delay" /\ jobs'[j] # jobs[j] =>
              \/ jobs'[j].pc = "done"
              \/ jobs'[j].pc = "intent" /\ jobs'[j].i = jobs[j].i + 1
        /\ jobs'[j] # jobs[j] /\ goalResources' # goalResources =>
              /\ C24_IsPrefix(SubSeq(C24_Order, 1, 6), jobs[j].log)
              /\ jobs[j].pc \in {"delete", "insert"}
        /\ jobs'[j].pc = "delay" /\ jobs'[j].ret.success =>
              C24_IsPrefix(SubSeq(C24_Order, 1, 6), jobs'[j].log)

C24_StagesInOrder == [][C24_Step]_vars

\* A run has gone through every stage and returned success.
C24_Witness ==
    \E j \in Jobs :
        jobs[j].pc = "delay" /\ jobs[j].ret.success /\ jobs[j].log = C24_Order

\* ---- C25

\* The rows of goal_resources of a step.
C25_Rows(stepId) == {k \in 1..Len(goalResources) : goalResources[k].stepId = stepId}

\* C25: every successful curation of a step yields between 5 and 8 resources:
\* when curateResourcesForStep has returned success, the count it reports and
\* the number of rows the step has are at least 5 and at most 8, and every row
\* has the URL of a candidate.
C25_FiveToEight ==
    \A j \in Jobs :
        jobs[j].pc = "delay" /\ jobs[j].ret.success =>
            LET rows == C25_Rows(jobs[j].steps[jobs[j].i])
            IN /\ jobs[j].ret.resourceCount \in 5..8
               /\ Cardinality(rows) \in 5..8
               /\ \A k \in rows : UrlInCandidates(goalResources[k].url, jobs[j].candidates)

\* ---- C26

\* Every call enqueued before t on t's key has settled, by success or by failure.
C26_EarlierSettled(t) ==
    \A u \in 1..(t - 1) :
        KeyOf(call[u]) = KeyOf(call[t]) => pc[u] \in {"done", "failed"}

\* What call t gave its caller is the outcome of its own operation: an error
\* only when it is a merge whose own lookup found no record, a result only
\* after its own write, and then the id of the record it wrote.
C26_OwnOutcome(t) ==
    /\ pc[t] = "failed" => call[t].op = "merge" /\ existing[t].id = NoRow
    /\ pc[t] = "done" =>
          /\ result[t] # NoRow
          /\ call[t].op = "merge" => existing[t].id = result[t]
          /\ \E i \in HistoryOf(call[t].kind, result[t]) :
                history[call[t].kind][i].value = call[t].value

\* C26: a ledger operation that fails does not block its key's queue: a queued
\* operation starts once all those enqueued before it on its key have settled,
\* by success or by failure, and every caller gets the result or the error of
\* its own operation only.
C26_FailureDoesNotBlock ==
    /\ \A t \in 1..MaxTasks :
          (pc[t] = "queued" /\ C26_EarlierSettled(t)) ~> (pc[t] \notin {"idle", "queued"})
    /\ [](\A t \in 1..MaxTasks : C26_OwnOutcome(t))

\* An operation queued behind one that failed has run to its end.
C26_Witness ==
    \E t \in 1..MaxTasks :
        /\ prev[t] # NoTask
        /\ pc[prev[t]] = "failed"
        /\ pc[t] = "done"

\* ---- C27

\* Every call issued has completed (returned or thrown).
C27_Quiescent == \A t \in 1..ntasks : Settled(t)

\* The latest effectiveDate among the history rows of record id.
C27_MaxDate(k, id) ==
    CHOOSE d \in {history[k][i].effectiveDate : i \in HistoryOf(k, id)} :
        \A i \in HistoryOf(k, id) : history[k][i].effectiveDate <= d

\* C27: once the upsert and merge calls issued have completed, every record has
\* history rows, its effectiveDate is the latest effectiveDate among them, and
\* its value is the value of a history row carrying that date.
C27_MainIsLatest ==
    C27_Quiescent =>
        \A k \in Kinds : \A id \in 1..Len(accounts[k]) :
            /\ HistoryOf(k, id) # {}
            /\ accounts[k][id].effectiveDate = C27_MaxDate(k, id)
            /\ \E i \in HistoryOf(k, id) :
                  /\ history[k][i].effectiveDate = accounts[k][id].effectiveDate
                  /\ history[k][i].value = accounts[k][id].value

\* All calls have completed and a record's last history row, written by a call
\* with an older date and another value, is not the one the record shows.
C27_Witness ==
    /\ C27_Quiescent
    /\ ntasks = MaxTasks
    /\ \E k \in Kinds : \E id \in 1..Len(accounts[k]) :
          LET last == history[k][Len(history[k])]
          IN /\ last.id = id
             /\ last.effectiveDate < accounts[k][id].effectiveDate
             /\ last.value # accounts[k][id].value
             /\ Cardinality(HistoryOf(k, id)) >= 3

\* ---- C28

\* The order numbers of the steps of a goal.
C28_Orders(goalId) == {goalSteps[s].order : s \in StepsOfGoal(goalId)}

\* C28: whatever createGoal and updateGoal calls have run, and however they
\* interleaved, the order numbers of the n steps of a goal are pairwise
\* distinct and are exactly 1..n.
C28_OrdersAreOneToN ==
    \A g \in 1..Len(goals) :
        LET n == Cardinality(StepsOfGoal(g))
        IN /\ C28_Orders(g) = 1..n
           /\ \A a, b \in StepsOfGoal(g) : goalSteps[a].order = goalSteps[b].order => a = b

\* Two updateGoal calls have both appended steps to the same goal.
C28_Witness ==
    \E t1, t2 \in 1..MaxTasks :
        /\ t1 # t2
        /\ call[t1].op = "updateGoal" /\ call[t2].op = "updateGoal"
        /\ pc[t1] = "done" /\ pc[t2] = "done"
        /\ call[t1].goalId = call[t2].goalId
        /\ Len(call[t1].newSteps) > 0 /\ Len(call[t2].newSteps) > 0
        /\ nextOrder[t1] < nextOrder[t2]
        /\ Cardinality(StepsOfGoal(call[t1].goalId)) >= 4

\* ---- C29

\* The jobs that a create_goal tool enqueued after call t.
C29_JobsOf(t) == {j \in 1..njobs : jobs[j].task = t}

\* C29: a curation job is enqueued only when a goal is actually created: no job
\* is enqueued for the goal that a createGoal call returned with deduplicated
\* true.
C29_NoCurationOnDedup ==
    \A t \in 1..ntasks :
        call[t].op = "createGoal" /\ pc[t] = "done" /\ deduplicated[t] => C29_JobsOf(t) = {}

\* ---- C30

\* The run of curateResourcesForStep that job j was in has returned a failure.
C30_Failed(j) == jobs[j].pc = "delay" /\ ~jobs[j].ret.success

\* C30: when a curation run of a step ends in failure, at whatever stage, the
\* Resource rows of the step are those it had when the run began; a step that
\* had resources does not end a failed run with none.
C30_FailureKeepsResources ==
    \A j \in Jobs :
        C30_Failed(j) => ResourceUrlsOf(jobs[j].steps[jobs[j].i]) = jobs[j].before

====
